---------------------------- MODULE Spec2Model ----------------------------
(***************************************************************************)
(* A model of parts of the ptext PDF engine:                               *)
(*   - the Catalog read handler (ReadRootDictionaryTransformer.transform), *)
(*   - the write pipeline's reference allocation                           *)
(*     (WriteBaseTransformer.get_reference),                               *)
(*   - the content-stream interpreter loop (Canvas.read),                  *)
(*   - the Type-1 font character-identifier <-> Unicode resolution         *)
(*     (Type1Font, StandardType1Font),                                     *)
(*   - the write pipeline's dispatch to its child transformers             *)
(*     (WriteBaseTransformer.transform) and its object delimiters          *)
(*     (_start_object, _end_object),                                       *)
(*   - the reading-order comparator of text events                         *)
(*     (LeftToRightComparator.cmp),                                        *)
(*   - the standard 14 fonts: name resolution and AFM widths               *)
(*     (StandardType1Font._canonical_name, get_width),                     *)
(*   - the hash of a value in the write pipeline                           *)
(*     (WriteBaseTransformer._hash),                                       *)
(*   - the text render event and its split on glyphs                       *)
(*     (ChunkOfTextRenderEvent.__init__, split_on_glyphs).                 *)
(* Each part has its own specifications (SpecCatalog, SpecCatalogDag,      *)
(* SpecCatalogGraph, SpecCatalogListener, SpecWrite, SpecWriteCalls,       *)
(* SpecWriteUnhashable, SpecCanvas, SpecCanvasMarked, SpecCanvasTraced,    *)
(* SpecFont, SpecDispatch, SpecEmit, SpecEmitSharing, SpecEvent,           *)
(* SpecStdFontName, SpecStdFontWidth, SpecHash, SpecChunk); a              *)
(* specification starts the other parts in their idle state and leaves     *)
(* them unchanged.                                                         *)
(***************************************************************************)
EXTENDS Integers, Sequences, FiniteSets, TLC

VARIABLES
    \* ---- Catalog handler ----
    kind,            \* node -> "Page" | "Pages" | "Other"
    kids,            \* node -> the node's Kids array (a sequence of nodes)
    kids0,           \* the Kids arrays as they were before transform
    count,           \* the Count entry of the root Pages node
    pc_cat,          \* position inside transform
    stack_to_handle, \* the worklist of transform
    pages_in_order,  \* the pages collected by transform
    tick,            \* flips with every iteration of the loop of transform
    event_listeners, \* the event_listeners argument of transform
    listeners,       \* dictionary -> the listeners attached to it, in order
    transformed_root_dictionary, \* what the Dictionary transformer returned
    \* ---- write context ----
    content,                  \* object -> its current value
    obj_ref,                  \* object -> index of its Reference (0: none)
    refs,                     \* the Reference objects minted so far
    indirect_objects_by_id,   \* the id-indexed registry (a set of objects)
    indirect_objects_by_hash, \* hash -> the bucket (a sequence of objects)
    changed_after,            \* an object was changed after get_reference gave it a Reference
    get_outcome,              \* how the last get_reference call ended
    \* ---- Canvas ----
    in_compatibility_section,
    graphics_state,
    graphics_state_stack,
    marked_content_stack,     \* self.marked_content_stack: the tags of the open sequences
    operand_stk,
    pos,             \* tokens read from the streams given to this canvas so far
    status,          \* "idle" | "running" | "done" | "raised"
    reads,           \* read calls started on this canvas
    last_op,         \* what the last loop iteration did
    scen,            \* tokens of Scenario read so far by the first read (-1: another stream)
    trace,           \* when on: the objects read_object returned in this read, and the operators invoked
    \* ---- Type-1 font ----
    font,            \* the font dictionary and its two lookup tables
    last_call,       \* the last lookup and its outcome
    \* ---- write dispatch ----
    handlers,        \* self.handlers: the children in registration order
    parent,          \* child -> its parent transformer ("none" | "root")
    can,             \* child -> the objects its can_be_transformed accepts
    last_transform,  \* the last transform call and what it did
    \* ---- object delimiters ----
    destination,     \* context.destination: the bytes written, one character each
    reference,       \* Reference object -> its fields (NoReference: none)
    ref_cell,        \* object -> the Reference object it holds
    emit_log,        \* when on: the offsets the _start_object calls stored
    emits,           \* _start_object and _end_object calls so far
    last_emit,       \* the last call and what it did
    \* ---- text events ----
    last_cmp,        \* the last LeftToRightComparator.cmp call and its result
    \* ---- standard 14 fonts ----
    afm_chars,       \* self._afm._chars: the items [code, width] in order
    last_name,       \* the last _canonical_name call and its results
    last_width,      \* the last get_width call and its result
    \* ---- structural hashing ----
    hash_objs,       \* the two values handed to _hash
    hash_results,    \* what _hash gave for each (NoneRes: not called)
    \* ---- text render events ----
    chunk_gs,        \* the graphics state handed to ChunkOfTextRenderEvent
    chunk_line,      \* the glyph line built from the raw bytes
    chunk_event,     \* the event constructed (NoEvent: none yet)
    chunk_split      \* what split_on_glyphs returned (NoSplit: not called)

listenerVars == <<event_listeners, listeners, transformed_root_dictionary>>

catalogVars == <<kind, kids, kids0, count, pc_cat, stack_to_handle, pages_in_order,
                 tick, listenerVars>>
writeVars == <<content, obj_ref, refs, indirect_objects_by_id,
               indirect_objects_by_hash, changed_after, get_outcome>>
canvasVars == <<in_compatibility_section, graphics_state, graphics_state_stack,
                marked_content_stack,
                operand_stk, pos, status, reads, last_op, scen, trace>>
fontVars == <<font, last_call>>
dispatchVars == <<handlers, parent, can, last_transform>>
emitVars == <<destination, reference, ref_cell, emit_log, emits, last_emit>>
baseVars == <<catalogVars, writeVars, canvasVars, fontVars>>
eventVars == <<last_cmp>>
stdFontVars == <<afm_chars, last_name, last_width>>
hashVars == <<hash_objs, hash_results>>
chunkVars == <<chunk_gs, chunk_line, chunk_event, chunk_split>>
extraVars == <<hashVars, chunkVars>>
moreVars == <<dispatchVars, emitVars, eventVars, stdFontVars, extraVars>>
notDispatchVars == <<baseVars, emitVars, eventVars, stdFontVars, extraVars>>
notEmitVars == <<baseVars, dispatchVars, eventVars, stdFontVars, extraVars>>
notEventVars == <<baseVars, dispatchVars, emitVars, stdFontVars, extraVars>>
notStdFontVars == <<baseVars, dispatchVars, emitVars, eventVars, extraVars>>
oldVars == <<baseVars, dispatchVars, emitVars, eventVars, stdFontVars>>
notHashVars == <<oldVars, chunkVars>>
notChunkVars == <<oldVars, hashVars>>
vars == <<catalogVars, writeVars, canvasVars, fontVars, moreVars>>

-----------------------------------------------------------------------------
(***************************************************************************)
(* Catalog handler                                                         *)
(***************************************************************************)

\* Largest number of nodes in the Pages subtree of an input catalog.
MaxNodes == 5

\* Largest number of nodes in a Pages graph whose Kids arrays may share
\* nodes and form cycles.
MaxGraphNodes == 3

\* Longest Kids array in such a graph.
MaxKids == 2

\* Largest tree in the runs that pass listeners to transform.
MaxListenerNodes == 2

\* The listeners a caller can pass, and the longest event_listeners list.
NListeners == 3
MaxEventListeners == 2

\* catalog["Pages"]
RootNode == 1

Listeners == 1..NListeners

\* The event_listeners lists: any listeners, in any order, repeats allowed.
EventListenerLists == UNION {[1..k -> Listeners] : k \in 0..MaxEventListeners}

\* The dictionaries of one call: object_to_transform, and the one the
\* Dictionary transformer builds when it does not return its argument.
ObjectToTransform == "object_to_transform"
NewDictionary == "new_dictionary"
Dictionaries == {ObjectToTransform, NewDictionary}

\* transform called with the default event_listeners = []
NoListeners ==
    /\ event_listeners = <<>>
    /\ listeners = [d \in Dictionaries |-> <<>>]
    /\ transformed_root_dictionary = "none"

\* for l in event_listeners: d.add_event_listener(l)
AddEventListeners(ls, d, given) == [ls EXCEPT ![d] = @ \o given]

\* What t.transform(object_to_transform, parent_object, context, []) can
\* return: its argument, or a dictionary it has built; it attaches the
\* listeners it was given, which are none.
DictionaryTransformResults == {ObjectToTransform, NewDictionary}
DictionaryTransform(ls, result) == AddEventListeners(ls, result, <<>>)

\* What the handler's two tests see of a value:
\*   "Page":  isinstance(obj, Page)
\*   "Pages": a Dictionary with Type = Pages whose Kids entry is a List
\*   "Other": any other value (for the root: a Dictionary that is neither)
NodeKinds == {"Page", "Pages", "Other"}

IsPage(k, n) == k[n] = "Page"

IsPagesWithKids(k, n) == k[n] = "Pages"

\* The ordered trees of n nodes, each once: nodes are numbered level by
\* level, so a parent map is a tree when it is non-decreasing and points to
\* a smaller node.
ParentMaps(n) ==
    {p \in [2..n -> 1..n] :
        /\ \A i \in 2..n : p[i] < i
        /\ \A i \in 2..n : \A j \in 2..n : i < j => p[i] <= p[j]}

\* The Kids array of node m under parent map p: its children in array order.
RECURSIVE KidsFrom(_, _, _, _)
KidsFrom(p, m, i, n) ==
    IF i > n THEN <<>>
    ELSE IF p[i] = m THEN <<i>> \o KidsFrom(p, m, i + 1, n)
    ELSE KidsFrom(p, m, i + 1, n)

KidsOf(p, n) == [m \in 1..n |-> KidsFrom(p, m, 2, n)]

InitCatalogVars ==
    \E n \in 1..MaxNodes :
        \E p \in ParentMaps(n) :
            \E k \in [1..n -> NodeKinds] :
                /\ kind = k
                /\ kids = KidsOf(p, n)
                /\ kids0 = KidsOf(p, n)
                /\ count = Len(KidsOf(p, n)[RootNode])
                /\ pc_cat = "start"
                /\ stack_to_handle = <<>>
                /\ pages_in_order = <<>>
                /\ tick = FALSE
                /\ NoListeners

\* transform called with a list of listeners
InitCatalogListenerVars ==
    \E n \in 1..MaxListenerNodes :
        \E p \in ParentMaps(n) :
            \E k \in [1..n -> NodeKinds] :
                \E given \in EventListenerLists :
                    /\ kind = k
                    /\ kids = KidsOf(p, n)
                    /\ kids0 = KidsOf(p, n)
                    /\ count = Len(KidsOf(p, n)[RootNode])
                    /\ pc_cat = "start"
                    /\ stack_to_handle = <<>>
                    /\ pages_in_order = <<>>
                    /\ tick = FALSE
                    /\ event_listeners = given
                    /\ listeners = [d \in Dictionaries |-> <<>>]
                    /\ transformed_root_dictionary = "none"

\* The Kids arrays of a graph of n nodes: any nodes, in any order
KidsArrays(n) == UNION {[1..k -> 1..n] : k \in 0..MaxKids}

\* A Pages structure of any shape: a node may be in several Kids arrays
\* and may be its own descendant.
InitCatalogGraphVars ==
    \E n \in 1..MaxGraphNodes :
        \E k \in [1..n -> NodeKinds] :
            \E ks \in [1..n -> KidsArrays(n)] :
                /\ kind = k
                /\ kids = ks
                /\ kids0 = ks
                /\ count = Len(ks[RootNode])
                /\ pc_cat = "start"
                /\ stack_to_handle = <<>>
                /\ pages_in_order = <<>>
                /\ tick = FALSE
                /\ NoListeners

\* The Kids arrays of node i in a structure without a cycle: the nodes are
\* numbered so that a kid has a larger number than its parent.
AcyclicKidsArrays(i, n) == UNION {[1..k -> (i + 1)..n] : k \in 0..MaxKids}

\* The Kids arrays of the nodes i..n of such a structure.
RECURSIVE AcyclicKidsFrom(_, _)
AcyclicKidsFrom(i, n) ==
    IF i > n THEN {<<>>}
    ELSE {<<a>> \o rest : a \in AcyclicKidsArrays(i, n), rest \in AcyclicKidsFrom(i + 1, n)}

\* A Pages structure in which a node may be in several Kids arrays, but is
\* never its own descendant.
InitCatalogDagVars ==
    \E n \in 1..MaxGraphNodes :
        \E k \in [1..n -> NodeKinds] :
            \E ks \in AcyclicKidsFrom(1, n) :
                /\ kind = k
                /\ kids = ks
                /\ kids0 = ks
                /\ count = Len(ks[RootNode])
                /\ pc_cat = "start"
                /\ stack_to_handle = <<>>
                /\ pages_in_order = <<>>
                /\ tick = FALSE
                /\ NoListeners

\* No input without a cycle makes the worklist or the collected pages
\* longer than this: every node is entered at most once per path from the
\* root, and there are at most MaxKids ^ (n - 1) paths to a node.
WorklistCap == MaxKids ^ MaxGraphNodes + MaxNodes

IdleCatalogVars ==
    /\ kind = <<"Other">>
    /\ kids = <<(<<>>)>>
    /\ kids0 = <<(<<>>)>>
    /\ count = 0
    /\ pc_cat = "idle"
    /\ stack_to_handle = <<>>
    /\ pages_in_order = <<>>
    /\ tick = FALSE
    /\ NoListeners

\* transform up to the loop: the listeners are attached to
\* object_to_transform, the Dictionary transformer is called with no
\* listeners, and the worklist holds the root Pages node
TransformBegin ==
    /\ pc_cat = "start"
    /\ \E result \in DictionaryTransformResults :
        /\ listeners' = DictionaryTransform(
               AddEventListeners(listeners, ObjectToTransform, event_listeners),
               result)
        /\ transformed_root_dictionary' = result
    /\ UNCHANGED event_listeners
    /\ pages_in_order' = <<>>
    /\ stack_to_handle' = <<RootNode>>
    /\ pc_cat' = "loop"
    /\ UNCHANGED <<kind, kids, kids0, count, tick>>
    /\ UNCHANGED <<writeVars, canvasVars, fontVars, moreVars>>

\* the kids of no node but the root are appended
NextWorklistOfRootOnly(stk, obj) ==
    IF IsPagesWithKids(kind, obj) /\ obj = RootNode THEN Tail(stk) \o kids[obj] ELSE Tail(stk)

\* The worklist after one iteration on obj: obj leaves the front, and the
\* kids of a Pages node are appended at the end.
NextWorklist(stk, obj) ==
    IF IsPagesWithKids(kind, obj) THEN Tail(stk) \o kids[obj] ELSE Tail(stk)

\* The collected pages after one iteration on obj.
CollectWrong(pages, obj) == Append(pages, obj)
Collect(pages, obj) ==
    IF IsPage(kind, obj) THEN Append(pages, obj) ELSE pages

\* one iteration of the while loop
DfsStep ==
    /\ pc_cat = "loop"
    /\ Len(stack_to_handle) > 0
    /\ LET obj == Head(stack_to_handle) IN
        /\ Len(NextWorklist(stack_to_handle, obj)) <= WorklistCap
        /\ Len(Collect(pages_in_order, obj)) <= WorklistCap
        /\ pages_in_order' = Collect(pages_in_order, obj)
        /\ stack_to_handle' = NextWorklist(stack_to_handle, obj)
    /\ tick' = ~tick
    /\ UNCHANGED <<kind, kids, kids0, count, pc_cat, listenerVars>>
    /\ UNCHANGED <<writeVars, canvasVars, fontVars, moreVars>>

\* The Count entry written for the collected pages.
CountOf(pages) == Len(pages)

\* after the loop: Kids and Count of the root Pages node are replaced
TransformFinish ==
    /\ pc_cat = "loop"
    /\ Len(stack_to_handle) = 0
    /\ kids' = [kids EXCEPT ![RootNode] = pages_in_order]
    /\ count' = CountOf(pages_in_order)
    /\ pc_cat' = "done"
    /\ UNCHANGED <<kind, kids0, stack_to_handle, pages_in_order, tick, listenerVars>>
    /\ UNCHANGED <<writeVars, canvasVars, fontVars, moreVars>>

NextCatalog == TransformBegin \/ DfsStep \/ TransformFinish

\* The loop on a structure with a cycle whose lists have outgrown
\* WorklistCap: the worklist is never empty again, the loop goes on
DfsStepBeyondCap ==
    /\ pc_cat \in {"loop", "beyond"}
    /\ Len(stack_to_handle) > 0
    /\ \/ pc_cat = "beyond"
       \/ LET obj == Head(stack_to_handle) IN
            \/ Len(NextWorklist(stack_to_handle, obj)) > WorklistCap
            \/ Len(Collect(pages_in_order, obj)) > WorklistCap
    /\ pc_cat' = "beyond"
    /\ tick' = ~tick
    /\ UNCHANGED <<kind, kids, kids0, count, stack_to_handle, pages_in_order,
                   listenerVars>>
    /\ UNCHANGED <<writeVars, canvasVars, fontVars, moreVars>>

NextCatalogGraph == TransformBegin \/ DfsStep \/ DfsStepBeyondCap \/ TransformFinish

\* The leaf pages below node n in depth-first preorder of the original tree.
RECURSIVE PreorderPages(_)
RECURSIVE PreorderOfKids(_)
PreorderPages(n) ==
    (IF IsPage(kind, n) THEN <<n>> ELSE <<>>)
        \o (IF IsPagesWithKids(kind, n) THEN PreorderOfKids(kids0[n]) ELSE <<>>)
PreorderOfKids(ks) ==
    IF ks = <<>> THEN <<>> ELSE PreorderPages(Head(ks)) \o PreorderOfKids(Tail(ks))

-----------------------------------------------------------------------------
(***************************************************************************)
(* Write pipeline: reference allocation in one WriteTransformerContext     *)
(***************************************************************************)

\* Number of objects handed to the write pipeline.
NObjects == 3

\* Number of distinct values an object can hold.
NValues == 3

\* Number of objects in the runs that hold values without a hash.
NUnhashObjects == 2

Objects == 1..NObjects

Values == 1..NValues

\* A value that cannot be hashed.
UnhashableValue == 0

\* _hash(object) raises TypeError
HashRaisesNever(v) == FALSE
HashRaises(v) == v = UnhashableValue

\* hash(obj): equal values hash alike, unequal values may collide.
HashOf(v) == v % 2

HashValues == {HashOf(v) : v \in Values}

\* obj == object: structural equality, which reads neither the parent nor
\* the reference of its arguments.
EqualsIdentity(c, a, b) == a = b
Equals(c, a, b) == c[a] = c[b]

\* How a get_reference call ended.
NoGet == [outcome |-> "none", obj |-> 0]
Returned == [outcome |-> "returned", obj |-> 0]
RaisedTypeError(o) == [outcome |-> "raised", obj |-> o]

NoRef == 0

\* object.get_reference().object_number (0 when the object has no Reference)
NumberOf(o) == IF obj_ref[o] = NoRef THEN 0 ELSE refs[obj_ref[o]].object_number

InitWriteVars ==
    /\ content \in [Objects -> Values]
    /\ obj_ref = [o \in Objects |-> NoRef]
    /\ refs = <<>>
    /\ indirect_objects_by_id = {}
    /\ indirect_objects_by_hash = [h \in HashValues |-> <<>>]
    /\ changed_after = FALSE
    /\ get_outcome = NoGet

\* a context and objects some of which hold a value without a hash
InitWriteUnhashableVars ==
    /\ content \in [1..NUnhashObjects -> Values \cup {UnhashableValue}]
    /\ obj_ref = [o \in 1..NUnhashObjects |-> NoRef]
    /\ refs = <<>>
    /\ indirect_objects_by_id = {}
    /\ indirect_objects_by_hash = [h \in HashValues |-> <<>>]
    /\ changed_after = FALSE
    /\ get_outcome = NoGet

IdleWriteVars ==
    /\ content = <<>>
    /\ obj_ref = <<>>
    /\ refs = <<>>
    /\ indirect_objects_by_id = {}
    /\ indirect_objects_by_hash = <<>>
    /\ changed_after = FALSE
    /\ get_outcome = NoGet

\* The first entry of the bucket that is equal to object o (0: none).
RECURSIVE FirstEqualIdentityOnly(_, _)
FirstEqualIdentityOnly(bucket, o) ==
    IF bucket = <<>> THEN 0
    ELSE IF Head(bucket) = o THEN Head(bucket)
    ELSE FirstEqualIdentityOnly(Tail(bucket), o)
RECURSIVE FirstEqual(_, _)
FirstEqual(bucket, o) ==
    IF bucket = <<>> THEN 0
    ELSE IF Equals(content, Head(bucket), o) THEN Head(bucket)
    ELSE FirstEqual(Tail(bucket), o)

\* the hash-indexed registry is left without the object
NotInserted(byhash, h, o) == byhash

\* context.indirect_objects_by_hash[obj_hash].append(object), or a new
\* bucket [object]
InsertByHash(byhash, h, o) == [byhash EXCEPT ![h] = Append(@, o)]

\* no object number is taken to exist
NoExistingNumbers(byhash) == {}

\* The object numbers of every object in the hash-indexed registry.
ExistingNumbersOf(byhash) ==
    UNION {{NumberOf(byhash[h][i]) : i \in 1..Len(byhash[h])} : h \in DOMAIN byhash}

\* while obj_number in existing_obj_numbers: obj_number += 1
RECURSIVE SkipExisting(_, _)
SkipExisting(n, existing) ==
    IF n \in existing THEN SkipExisting(n + 1, existing) ELSE n

\* obj_number = len(existing_obj_numbers) + 1, moved past collisions
NewObjNumberFromZero(existing) == SkipExisting(Cardinality(existing), existing)
NewObjNumber(existing) == SkipExisting(Cardinality(existing) + 1, existing)

\* get_reference(object, context)
GetReference(o) ==
    /\ UNCHANGED <<catalogVars, canvasVars, fontVars, moreVars>>
    /\ LET h == HashOf(content[o])
           hit == FirstEqual(indirect_objects_by_hash[h], o)
           n == NewObjNumber(ExistingNumbersOf(indirect_objects_by_hash))
       IN  IF o \in indirect_objects_by_id
           THEN \* the identity is registered: its Reference is returned
                /\ get_outcome' = Returned
                /\ UNCHANGED <<content, obj_ref, refs, indirect_objects_by_id,
                               indirect_objects_by_hash, changed_after>>
           ELSE IF HashRaises(content[o])
           THEN \* _hash raises TypeError before anything is written
                /\ get_outcome' = RaisedTypeError(o)
                /\ UNCHANGED <<content, obj_ref, refs, indirect_objects_by_id,
                               indirect_objects_by_hash, changed_after>>
           ELSE IF hit # 0
           THEN \* an equal object is in the bucket: its Reference is adopted
                /\ obj_ref' = [obj_ref EXCEPT ![o] = obj_ref[hit]]
                /\ get_outcome' = Returned
                /\ UNCHANGED <<content, refs, indirect_objects_by_id,
                               indirect_objects_by_hash, changed_after>>
           ELSE \* a new Reference is minted and the object enters both registries
                /\ get_outcome' = Returned
                /\ refs' = Append(refs, [object_number |-> n, generation_number |-> 0,
                                         byte_offset |-> -1])
                /\ obj_ref' = [obj_ref EXCEPT ![o] = Len(refs) + 1]
                /\ indirect_objects_by_hash' = InsertByHash(indirect_objects_by_hash, h, o)
                /\ indirect_objects_by_id' = indirect_objects_by_id \cup {o}
                /\ UNCHANGED <<content, changed_after>>

\* The caller changes the value of an object between two calls.
ChangeObject(o, v) ==
    /\ v # content[o]
    /\ content' = [content EXCEPT ![o] = v]
    /\ changed_after' = (changed_after \/ obj_ref[o] # NoRef)
    /\ UNCHANGED get_outcome
    /\ UNCHANGED <<obj_ref, refs, indirect_objects_by_id,
                   indirect_objects_by_hash>>
    /\ UNCHANGED <<catalogVars, canvasVars, fontVars, moreVars>>

NextWrite ==
    \/ \E o \in Objects : GetReference(o)
    \/ \E o \in Objects : \E v \in Values : ChangeObject(o, v)

\* get_reference calls on objects that the caller leaves as they are
NextWriteCalls == \E o \in Objects : GetReference(o)

\* the same calls on objects that may hold a value without a hash
NextWriteUnhashable ==
    \/ \E o \in DOMAIN content : GetReference(o)
    \/ \E o \in DOMAIN content : \E v \in Values \cup {UnhashableValue} :
           ChangeObject(o, v)

-----------------------------------------------------------------------------
(***************************************************************************)
(* Content-stream interpreter: Canvas.read                                 *)
(***************************************************************************)

\* Largest number of tokens in the content streams one canvas reads.
MaxStream == 6

\* Largest number of read calls on one canvas.
MaxReads == 2

\* Largest number of objects read while the stream and the invocations are
\* recorded.
MaxTracedStream == 3

\* Operator names in the operator table (a part of it) ...
KnownOperators == {"BX", "EX", "q", "Q", "w", "Tf"}

\* ... and an operator name that is not in it.
UnknownOperators == {"bar"}

\* Tokens that are not operator names: they are pushed as operands.
OperandTokens == {"/Foo", "1"}

Tokens == OperandTokens \cup KnownOperators \cup UnknownOperators

\* The operators of the table that open and close a marked-content
\* sequence; they occur in the streams of the runs on marked content.
MarkedContentOperators == {"BMC", "EMC"}

\* isinstance(obj, CanvasOperatorName)
IsOperatorName(tok) ==
    tok \in KnownOperators \cup MarkedContentOperators \cup UnknownOperators

\* self.canvas_operators.get(obj, None) is not None
InOperatorTable(tok) == tok \in KnownOperators \cup MarkedContentOperators

\* operator.get_number_of_operands()
NumberOfOperands(op) ==
    CASE op = "w" -> 1
      [] op = "Tf" -> 2
      [] op = "BMC" -> 1
      [] OTHER -> 0

\* The stream of the end-to-end scenario: BX /Foo bar EX q Q
Scenario == <<"BX", "/Foo", "bar", "EX", "q", "Q">>

\* CanvasGraphicsState(): the fields the modelled operators write
InitialGraphicsState ==
    [line_width |-> "default", font |-> "none", font_size |-> "default"]

NoTrace == [on |-> FALSE, stream |-> <<>>, invoked |-> <<>>]

EmptyTrace == [on |-> TRUE, stream |-> <<>>, invoked |-> <<>>]

NoOp == [tok |-> "none", what |-> "none", compat_before |-> FALSE,
         stk_before |-> <<>>, operands |-> <<>>]

InitCanvasVars ==
    /\ in_compatibility_section = FALSE
    /\ graphics_state = InitialGraphicsState
    /\ graphics_state_stack = <<>>
    /\ marked_content_stack = <<>>
    /\ operand_stk = <<>>
    /\ pos = 0
    /\ status = "idle"
    /\ reads = 0
    /\ last_op = NoOp
    /\ scen = -1
    /\ trace = NoTrace

\* the same canvas, with the stream and the invocations recorded
InitCanvasTracedVars ==
    /\ in_compatibility_section = FALSE
    /\ graphics_state = InitialGraphicsState
    /\ graphics_state_stack = <<>>
    /\ marked_content_stack = <<>>
    /\ operand_stk = <<>>
    /\ pos = 0
    /\ status = "idle"
    /\ reads = 0
    /\ last_op = NoOp
    /\ scen = -1
    /\ trace = EmptyTrace

IdleCanvasVars == InitCanvasVars

\* the objects that can still be read
StreamLimit == IF trace.on THEN MaxTracedStream ELSE MaxStream

\* The record after read_object returned tok and invocations were made:
\* operator.invoke(self, operands) is called once for the operator read
NoInvocation(tok) == <<>>
OneInvocation(tok) == <<tok>>
Traced(tok, invocations) ==
    IF trace.on
    THEN [trace EXCEPT !.stream = Append(@, tok), !.invoked = @ \o invocations]
    ELSE trace

\* What this iteration did, for the properties to read.
Did(tok, what, operands) ==
    [tok |-> tok, what |-> what, compat_before |-> in_compatibility_section,
     stk_before |-> operand_stk, operands |-> operands]

\* The scenario's progress once tok is read.
ScenAfter(tok) ==
    IF scen >= 0 /\ scen < Len(Scenario) /\ Scenario[scen + 1] = tok
    THEN scen + 1 ELSE -1

\* The last n values of the operand stack, earliest first
\* (operands.insert(0, operand_stk.pop(-1)), n times).
TopOperandsAppended(stk, n) == [i \in 1..n |-> stk[Len(stk) - i + 1]]
TopOperands(stk, n) == SubSeq(stk, Len(stk) - n + 1, Len(stk))

\* The operand stack without its last n values.
WithoutTop(stk, n) == SubSeq(stk, 1, Len(stk) - n)

\* Whether operator.invoke(canvas, operands) raises.
InvokeFails(op) ==
    \/ op = "Q" /\ graphics_state_stack = <<>>
    \/ op = "EMC" /\ marked_content_stack = <<>>

\* The canvas after operator.invoke(canvas, operands) returned.
InvokeEffect(op, operands) ==
    /\ in_compatibility_section' =
           (CASE op = "BX" -> TRUE
              [] op = "EX" -> FALSE
              [] OTHER -> in_compatibility_section)
    /\ graphics_state' =
           (CASE op = "Q" -> graphics_state_stack[Len(graphics_state_stack)]
              [] op = "w" -> [graphics_state EXCEPT !.line_width = operands[1]]
              [] op = "Tf" -> [graphics_state EXCEPT !.font = operands[1],
                                                     !.font_size = operands[2]]
              [] OTHER -> graphics_state)
    /\ graphics_state_stack' =
           (CASE op = "q" -> Append(graphics_state_stack, graphics_state)
              [] op = "Q" -> WithoutTop(graphics_state_stack, 1)
              [] OTHER -> graphics_state_stack)
    /\ marked_content_stack' =
           (CASE op = "BMC" -> Append(marked_content_stack, operands[1])
              [] op = "EMC" -> WithoutTop(marked_content_stack, 1)
              [] OTHER -> marked_content_stack)

\* if not self.in_compatibility_section: assert ...
ArityAssertedNever(compat) == FALSE
ArityAsserted(compat) == ~compat

\* len(operand_stk) >= operator.get_number_of_operands()
ExactOperands(stk, op) == Len(stk) = NumberOfOperands(op)
EnoughOperands(stk, op) == Len(stk) >= NumberOfOperands(op)

\* The assert is skipped or holds.
AssertPasses(op) ==
    ~ArityAsserted(in_compatibility_section) \/ EnoughOperands(operand_stk, op)

\* except Exception as e: if not self.in_compatibility_section: raise e
ExceptionReraisedNever(compat) == FALSE
ExceptionReraised(compat) == ~compat

\* if operator is None: logger.debug(...); continue
UnknownOperatorRaises(tok) == TRUE
UnknownOperatorFails(tok) == FALSE

\* read(io_source) is called on a canvas set back to what __init__ made
StartReadOnResetCanvas ==
    /\ UNCHANGED <<catalogVars, writeVars, fontVars, moreVars>>
    /\ status \in {"idle", "done", "raised"}
    /\ reads < MaxReads
    /\ status' = "running"
    /\ reads' = reads + 1
    /\ operand_stk' = <<>>
    /\ last_op' = NoOp
    /\ scen' = IF reads = 0 THEN 0 ELSE -1
    /\ trace' = IF trace.on THEN EmptyTrace ELSE trace
    /\ in_compatibility_section' = FALSE
    /\ graphics_state' = InitialGraphicsState
    /\ graphics_state_stack' = <<>>
    /\ marked_content_stack' = <<>>
    /\ UNCHANGED pos

\* read(io_source) is called: a fresh operand stack, the canvas as it is
StartRead ==
    /\ UNCHANGED <<catalogVars, writeVars, fontVars, moreVars>>
    /\ status \in {"idle", "done", "raised"}
    /\ reads < MaxReads
    /\ status' = "running"
    /\ reads' = reads + 1
    /\ operand_stk' = <<>>
    /\ last_op' = NoOp
    /\ scen' = IF reads = 0 THEN 0 ELSE -1
    /\ trace' = IF trace.on THEN EmptyTrace ELSE trace
    /\ UNCHANGED <<in_compatibility_section, graphics_state, graphics_state_stack,
                   marked_content_stack,
                   pos>>

\* tokenizer.tell() == length, or read_object() returned None
EndOfStream ==
    /\ UNCHANGED <<catalogVars, writeVars, fontVars, moreVars>>
    /\ status = "running"
    /\ status' = "done"
    /\ last_op' = Did("eos", "eos", <<>>)
    /\ UNCHANGED <<in_compatibility_section, graphics_state, graphics_state_stack,
                   marked_content_stack,
                   operand_stk, pos, reads, scen, trace>>

\* the object read is not an operator name: it is pushed
PushOperand(tok) ==
    /\ UNCHANGED <<catalogVars, writeVars, fontVars, moreVars>>
    /\ status = "running" /\ pos < StreamLimit
    /\ ~IsOperatorName(tok)
    /\ operand_stk' = Append(operand_stk, tok)
    /\ pos' = pos + 1
    /\ last_op' = Did(tok, "pushed", <<>>)
    /\ scen' = ScenAfter(tok)
    /\ trace' = Traced(tok, NoInvocation(tok))
    /\ UNCHANGED <<in_compatibility_section, graphics_state, graphics_state_stack,
                   marked_content_stack,
                   status, reads>>

\* the operator name is not in the table
MissingOperator(tok) ==
    /\ UNCHANGED <<catalogVars, writeVars, fontVars, moreVars>>
    /\ status = "running" /\ pos < StreamLimit
    /\ IsOperatorName(tok) /\ ~InOperatorTable(tok)
    /\ pos' = pos + 1
    /\ scen' = ScenAfter(tok)
    /\ trace' = Traced(tok, NoInvocation(tok))
    /\ IF UnknownOperatorFails(tok)
       THEN /\ status' = "raised"
            /\ last_op' = Did(tok, "raised", <<>>)
       ELSE /\ status' = status
            /\ last_op' = Did(tok, "skipped", <<>>)
    /\ UNCHANGED <<in_compatibility_section, graphics_state, graphics_state_stack,
                   marked_content_stack,
                   operand_stk, reads>>

\* a known operator with too few operands, outside a compatibility
\* section: the assert fails
ArityAssertFails(tok) ==
    /\ UNCHANGED <<catalogVars, writeVars, fontVars, moreVars>>
    /\ status = "running" /\ pos < StreamLimit
    /\ InOperatorTable(tok)
    /\ ArityAsserted(in_compatibility_section)
    /\ ~EnoughOperands(operand_stk, tok)
    /\ status' = "raised"
    /\ pos' = pos + 1
    /\ last_op' = Did(tok, "assert_failed", <<>>)
    /\ scen' = ScenAfter(tok)
    /\ trace' = Traced(tok, NoInvocation(tok))
    /\ UNCHANGED <<in_compatibility_section, graphics_state, graphics_state_stack,
                   marked_content_stack,
                   operand_stk, reads>>

\* a known operator with too few operands, the assert passed over: the pops
\* empty the stack and the next operand_stk.pop(-1) raises IndexError,
\* outside the try block
PopFromEmpty(tok) ==
    /\ UNCHANGED <<catalogVars, writeVars, fontVars, moreVars>>
    /\ status = "running" /\ pos < StreamLimit
    /\ InOperatorTable(tok)
    /\ AssertPasses(tok)
    /\ Len(operand_stk) < NumberOfOperands(tok)
    /\ status' = "raised"
    /\ operand_stk' = <<>>
    /\ pos' = pos + 1
    /\ last_op' = Did(tok, "pop_failed", <<>>)
    /\ scen' = ScenAfter(tok)
    /\ trace' = Traced(tok, NoInvocation(tok))
    /\ UNCHANGED <<in_compatibility_section, graphics_state, graphics_state_stack,
                   marked_content_stack,
                   reads>>

\* a known operator with its operands: they are popped and it is invoked;
\* the except clause reads the flag as invoke left it
InvokeOperator(tok) ==
    /\ UNCHANGED <<catalogVars, writeVars, fontVars, moreVars>>
    /\ status = "running" /\ pos < StreamLimit
    /\ InOperatorTable(tok)
    /\ AssertPasses(tok)
    /\ Len(operand_stk) >= NumberOfOperands(tok)
    /\ LET n == NumberOfOperands(tok)
           operands == TopOperands(operand_stk, n)
       IN  /\ operand_stk' = WithoutTop(operand_stk, n)
           /\ pos' = pos + 1
           /\ scen' = ScenAfter(tok)
           /\ trace' = Traced(tok, OneInvocation(tok))
           /\ IF InvokeFails(tok)
              THEN /\ UNCHANGED <<in_compatibility_section, graphics_state,
                                  graphics_state_stack, marked_content_stack>>
                   /\ last_op' = Did(tok, "invoke_raised", operands)
                   /\ IF ExceptionReraised(in_compatibility_section')
                      THEN status' = "raised"
                      ELSE status' = status
              ELSE /\ InvokeEffect(tok, operands)
                   /\ status' = status
                   /\ last_op' = Did(tok, "invoked", operands)
    /\ UNCHANGED reads

NextCanvas ==
    \/ StartRead
    \/ EndOfStream
    \/ \E tok \in Tokens : PushOperand(tok)
    \/ \E tok \in Tokens : MissingOperator(tok)
    \/ \E tok \in Tokens : ArityAssertFails(tok)
    \/ \E tok \in Tokens : PopFromEmpty(tok)
    \/ \E tok \in Tokens : InvokeOperator(tok)

\* the same loop on streams that hold marked-content operators as well
NextCanvasMarked ==
    \/ StartRead
    \/ EndOfStream
    \/ \E tok \in Tokens \cup MarkedContentOperators : PushOperand(tok)
    \/ \E tok \in Tokens \cup MarkedContentOperators : MissingOperator(tok)
    \/ \E tok \in Tokens \cup MarkedContentOperators : ArityAssertFails(tok)
    \/ \E tok \in Tokens \cup MarkedContentOperators : PopFromEmpty(tok)
    \/ \E tok \in Tokens \cup MarkedContentOperators : InvokeOperator(tok)

-----------------------------------------------------------------------------
(***************************************************************************)
(* Type-1 fonts: character identifier <-> Unicode                          *)
(* A str is a sequence of code points; a dict is the sequence of its       *)
(* items [k, v] in insertion order.                                        *)
(***************************************************************************)

\* Longest Differences array of an input font.
MaxDifferences == 3

\* Outcomes of a lookup
NoneRes == [tag |-> "none", val |-> <<>>, num |-> 0]
Raised == [tag |-> "raise", val |-> <<>>, num |-> 0]
StrRes(u) == [tag |-> "str", val |-> u, num |-> 0]
IntRes(n) == [tag |-> "int", val |-> <<>>, num |-> n]

\* d.get(k)
RECURSIVE DictHas(_, _)
DictHas(d, k) ==
    IF d = <<>> THEN FALSE
    ELSE IF Head(d).k = k THEN TRUE ELSE DictHas(Tail(d), k)

RECURSIVE DictGet(_, _)
DictGet(d, k) ==
    IF Head(d).k = k THEN Head(d).v ELSE DictGet(Tail(d), k)

\* d[k] = v: a present key keeps its place, a new key goes last
RECURSIVE DictSet(_, _, _)
DictSet(d, k, v) ==
    IF d = <<>> THEN <<[k |-> k, v |-> v]>>
    ELSE IF Head(d).k = k THEN <<[k |-> k, v |-> v]>> \o Tail(d)
    ELSE <<Head(d)>> \o DictSet(Tail(d), k, v)

\* {v: k for k, v in d.items()}
RECURSIVE DictInvertInto(_, _)
DictInvertInto(d, acc) ==
    IF d = <<>> THEN acc
    ELSE DictInvertInto(Tail(d), DictSet(acc, Head(d).v, Head(d).k))

DictInvert(d) == DictInvertInto(d, <<>>)

\* bytes([c]).decode("cp1252") for c in 128..159 (-1: undefined)
Cp1252High ==
    <<
       8364, -1, 8218, 402, 8222, 8230, 8224, 8225, 710, 8240, 352, 8249,
       338, -1, 381, -1, -1, 8216, 8217, 8220, 8221, 8226, 8211, 8212,
       732, 8482, 353, 8250, 339, -1, 382, 376
    >>

\* bytes([c]).decode("mac-roman") for c in 128..255
MacRomanHigh ==
    <<
       196, 197, 199, 201, 209, 214, 220, 225, 224, 226, 228, 227,
       229, 231, 233, 232, 234, 235, 237, 236, 238, 239, 241, 243,
       242, 244, 246, 245, 250, 249, 251, 252, 8224, 176, 162, 163,
       167, 8226, 182, 223, 174, 169, 8482, 180, 168, 8800, 198, 216,
       8734, 177, 8804, 8805, 165, 181, 8706, 8721, 8719, 960, 8747, 170,
       186, 937, 230, 248, 191, 161, 172, 8730, 402, 8776, 8710, 171,
       187, 8230, 160, 192, 195, 213, 338, 339, 8211, 8212, 8220, 8221,
       8216, 8217, 247, 9674, 255, 376, 8260, 8364, 8249, 8250, 64257, 64258,
       8225, 183, 8218, 8222, 8240, 194, 202, 193, 203, 200, 205, 206,
       207, 204, 211, 212, 63743, 210, 218, 219, 217, 305, 710, 732,
       175, 728, 729, 730, 184, 733, 731, 711
    >>

\* The code point of byte c under cp1252 (-1: the codec raises)
Cp1252CodePoint(c) ==
    IF c < 128 \/ c >= 160 THEN c ELSE Cp1252High[c - 127]

\* The code point of byte c under mac-roman
MacRomanCodePoint(c) ==
    IF c < 128 THEN c ELSE MacRomanHigh[c - 127]

\* bytes([cid]): ValueError unless 0 <= cid < 256
ByteOk(cid) == cid >= 0 /\ cid < 256

\* bytes([cid]).decode("cp1252")
Cp1252Decode(cid) ==
    IF ~ByteOk(cid) THEN Raised
    ELSE IF Cp1252CodePoint(cid) = -1 THEN Raised
    ELSE StrRes(<<Cp1252CodePoint(cid)>>)

\* bytes([cid]).decode("mac-roman")
MacRomanDecode(cid) ==
    IF ~ByteOk(cid) THEN Raised ELSE StrRes(<<MacRomanCodePoint(cid)>>)

\* The code point of byte c under the codec (-1: undefined)
CodePointOf(codec, c) ==
    IF codec = "cp1252" THEN Cp1252CodePoint(c) ELSE MacRomanCodePoint(c)

\* The byte of code point u under the codec (-1: the codec raises)
ByteOfCodePoint(codec, u) ==
    IF u # -1 /\ \E c \in 0..255 : CodePointOf(codec, c) = u
    THEN CHOOSE c \in 0..255 : CodePointOf(codec, c) = u
    ELSE -1

\* unicode.encode(codec): the bytes, or <<-1>> when the codec raises
RECURSIVE Encode(_, _)
Encode(codec, u) ==
    IF u = <<>> THEN <<>>
    ELSE LET b == ByteOfCodePoint(codec, Head(u))
             rest == Encode(codec, Tail(u))
         IN  IF b = -1 \/ rest = <<-1>> THEN <<-1>> ELSE <<b>> \o rest

IsDigitByte(b) == b >= 48 /\ b <= 57

IsSpaceByte(b) == b \in {9, 10, 11, 12, 13, 32}

RECURSIVE StripLeft(_)
StripLeft(bs) ==
    IF bs # <<>> /\ IsSpaceByte(Head(bs)) THEN StripLeft(Tail(bs)) ELSE bs

RECURSIVE StripRight(_)
StripRight(bs) ==
    IF bs # <<>> /\ IsSpaceByte(bs[Len(bs)])
    THEN StripRight(SubSeq(bs, 1, Len(bs) - 1)) ELSE bs

\* digits with single underscores between them
RECURSIVE IsDigits(_)
IsDigits(bs) ==
    /\ bs # <<>>
    /\ IsDigitByte(Head(bs))
    /\ \/ Len(bs) = 1
       \/ IsDigits(Tail(bs))
       \/ Len(bs) >= 3 /\ bs[2] = 95 /\ IsDigits(SubSeq(bs, 3, Len(bs)))

RECURSIVE DigitsValue(_, _)
DigitsValue(bs, acc) ==
    IF bs = <<>> THEN acc
    ELSE IF Head(bs) = 95 THEN DigitsValue(Tail(bs), acc)
    ELSE DigitsValue(Tail(bs), 10 * acc + (Head(bs) - 48))

\* int(bs) for a bytes value: a decimal literal, else ValueError
IntOfBytes(bs) ==
    LET t == StripRight(StripLeft(bs))
        signed == t # <<>> /\ Head(t) \in {43, 45}
        body == IF signed THEN Tail(t) ELSE t
    IN  IF ~IsDigits(body) THEN Raised
        ELSE IF signed /\ Head(t) = 45 THEN IntRes(0 - DigitsValue(body, 0))
        ELSE IntRes(DigitsValue(body, 0))

\* int(unicode.encode(codec)) inside try/except: any failure gives None
IntOfEncoded(codec, u) ==
    IF Encode(codec, u) = <<-1>> THEN NoneRes
    ELSE IF IntOfBytes(Encode(codec, u)).tag = "raise" THEN NoneRes
    ELSE IntOfBytes(Encode(codec, u))

\* The predefined encodings the lookups recognise.
PredefinedEncodings ==
    {"MacRomanEncoding", "MacExpertEncoding", "WinAnsiEncoding", "StandardEncoding"}

\* Adobe standard encoding: the letters, digits and punctuation it shares
\* with ASCII, quoteright at 39 and quoteleft at 96 (-1: undefined)
AdobeStandardCodePoint(c) ==
    IF c = 39 THEN 8217
    ELSE IF c = 96 THEN 8216
    ELSE IF c >= 32 /\ c <= 126 THEN c
    ELSE -1

\* adobe_standard_decode(bytes([cid])): bytes([cid]) raises outside 0..255;
\* a byte the table leaves undefined decodes to the empty str
AdobeStandardDecode(cid) ==
    IF ~ByteOk(cid) THEN Raised
    ELSE IF AdobeStandardCodePoint(cid) = -1 THEN StrRes(<<>>)
    ELSE StrRes(<<AdobeStandardCodePoint(cid)>>)

\* int(adobe_standard_encode(unicode)) inside try/except
RECURSIVE AdobeStandardEncode(_)
AdobeStandardEncode(u) ==
    IF u = <<>> THEN <<>>
    ELSE LET ok == \E c \in 0..255 : AdobeStandardCodePoint(c) = Head(u)
             rest == AdobeStandardEncode(Tail(u))
         IN  IF ~ok \/ rest = <<-1>> THEN <<-1>>
             ELSE <<CHOOSE c \in 0..255 : AdobeStandardCodePoint(c) = Head(u)>> \o rest

IntOfAdobeEncoded(u) ==
    IF AdobeStandardEncode(u) = <<-1>> THEN NoneRes
    ELSE IF IntOfBytes(AdobeStandardEncode(u)).tag = "raise" THEN NoneRes
    ELSE IntOfBytes(AdobeStandardEncode(u))

\* fontTools.agl.toUnicode(glyph_name): a part of the Adobe Glyph List;
\* a name it does not know gives the empty str
ToUnicode(glyph_name) ==
    CASE glyph_name = "A" -> <<65>>
      [] glyph_name = "B" -> <<66>>
      [] glyph_name = "space" -> <<32>>
      [] OTHER -> <<>>

\* Entries of a Differences array
Code(n) == [is_num |-> TRUE, code |-> n, name |-> ""]
Glyph(g) == [is_num |-> FALSE, code |-> 0, name |-> g]

\* The inner loop of _read_encoding_with_differences: the names from j on
\* are assigned to character_code, character_code + 1, ...
RECURSIVE ApplyNames(_, _, _, _)
ApplyNames(diffs, j, character_code, table) ==
    IF j <= Len(diffs) /\ ~diffs[j].is_num
    THEN ApplyNames(diffs, j + 1, character_code + 1,
                    DictSet(table, character_code, ToUnicode(diffs[j].name)))
    ELSE table

\* The index of the first numeric entry from j on (Len + 1: none)
RECURSIVE SkipNames(_, _)
SkipNames(diffs, j) ==
    IF j <= Len(diffs) /\ ~diffs[j].is_num THEN SkipNames(diffs, j + 1) ELSE j

\* The outer loop from index i on: [ok, table]; ok is false when the
\* assert on a numeric entry at i fails
RECURSIVE ApplyDifferences(_, _, _)
ApplyDifferences(diffs, i, table) ==
    IF i > Len(diffs) THEN [ok |-> TRUE, table |-> table]
    ELSE IF ~diffs[i].is_num THEN [ok |-> FALSE, table |-> table]
    ELSE ApplyDifferences(diffs, SkipNames(diffs, i + 1),
                          ApplyNames(diffs, i + 1, diffs[i].code, table))

\* _read_encoding_with_differences: [ok, font]
ReadEncodingWithDifferences(f) ==
    IF Len(f.u2c) > 0 THEN [ok |-> TRUE, font |-> f]
    ELSE IF ~f.has_first_last THEN [ok |-> FALSE, font |-> f]
    ELSE LET r == ApplyDifferences(f.differences, 1, <<>>)
         IN  IF r.ok
             THEN [ok |-> TRUE,
                   font |-> [f EXCEPT !.c2u = r.table, !.u2c = DictInvert(r.table),
                                      !.parses = @ + 1]]
             ELSE [ok |-> FALSE, font |-> [f EXCEPT !.c2u = r.table, !.parses = @ + 1]]

\* _read_to_unicode: the tables come from the CMap, once they are non-empty
ReadToUnicode(f) ==
    IF Len(f.u2c) > 0 THEN f
    ELSE [f EXCEPT !.c2u = f.cmap, !.u2c = DictInvert(f.cmap), !.parses = @ + 1]

\* if "Encoding" not in self: self[Name("Encoding")] = Name("StandardEncoding")
ImplyNoEncoding(f) == f
ImplyStandardEncoding(f) ==
    IF f.encoding = "absent" THEN [f EXCEPT !.encoding = "StandardEncoding"] ELSE f

\* The decode of a predefined encoding for one character identifier
DecodeNamed(encoding, has_base_font, cid) ==
    CASE encoding = "WinAnsiEncoding" -> Cp1252Decode(cid)
      [] encoding = "MacRomanEncoding" -> MacRomanDecode(cid)
      [] encoding = "MacExpertEncoding" ->
            IF has_base_font THEN MacRomanDecode(cid) ELSE Raised
      [] OTHER -> AdobeStandardDecode(cid)

\* if character_identifier < 0 or character_identifier > 256: return None
CidOutOfRange(cid) == cid < 0 \/ cid > 256

\* StandardType1Font.__init__, a font other than Symbol and ZapfDingbats:
\* table[c] is the cp1252 decode of c, or "" where the codec raises
StandardFontStr(c) ==
    IF Cp1252Decode(c).tag = "raise" THEN <<>> ELSE Cp1252Decode(c).val

\* StandardType1Font.character_identifier_to_unicode
StandardFontCidToUnicode(cid) ==
    IF ByteOk(cid) THEN StrRes(StandardFontStr(cid)) ELSE NoneRes

\* StandardType1Font.unicode_to_character_identifier: the reverse table
\* keeps, for a str, the last character identifier that has it
StandardFontUnicodeToCid(u) ==
    IF \E c \in 0..255 : StandardFontStr(c) = u
    THEN IntRes(CHOOSE c \in 0..255 :
                    /\ StandardFontStr(c) = u
                    /\ \A d \in 0..255 : StandardFontStr(d) = u => d <= c)
    ELSE NoneRes

\* if Name("ToUnicode") in self
HasToUnicodeNever(f) == FALSE
HasToUnicode(f) == f.to_unicode

\* Type1Font.character_identifier_to_unicode: [font, res]
CharacterIdentifierToUnicode(f, cid) ==
    IF f.cls = "Standard14" THEN [font |-> f, res |-> StandardFontCidToUnicode(cid)]
    ELSE IF HasToUnicode(f)
    THEN LET f1 == ReadToUnicode(f)
         IN  [font |-> f1,
              res |-> IF DictHas(f1.c2u, cid) THEN StrRes(DictGet(f1.c2u, cid))
                      ELSE NoneRes]
    ELSE LET f1 == ImplyStandardEncoding(f)
         IN  IF f1.encoding \in PredefinedEncodings
             THEN [font |-> f1,
                   res |-> IF CidOutOfRange(cid) THEN NoneRes
                           ELSE DecodeNamed(f1.encoding, f1.has_base_font, cid)]
             ELSE IF f1.encoding = "dict" /\ f1.base_encoding \in PredefinedEncodings
             THEN IF CidOutOfRange(cid) THEN [font |-> f1, res |-> NoneRes]
                  ELSE LET r == ReadEncodingWithDifferences(f1)
                       IN  [font |-> r.font,
                            res |-> IF ~r.ok THEN Raised
                                    ELSE IF DictHas(r.font.c2u, cid)
                                    THEN StrRes(DictGet(r.font.c2u, cid))
                                    ELSE NoneRes]
             ELSE [font |-> f1, res |-> NoneRes]

\* Type1Font.unicode_to_character_identifier: [font, res]
UnicodeToCharacterIdentifier(f, u) ==
    IF f.cls = "Standard14" THEN [font |-> f, res |-> StandardFontUnicodeToCid(u)]
    ELSE IF HasToUnicode(f)
    THEN LET f1 == ReadToUnicode(f)
         IN  [font |-> f1,
              res |-> IF DictHas(f1.u2c, u) THEN IntRes(DictGet(f1.u2c, u))
                      ELSE NoneRes]
    ELSE LET f1 == ImplyStandardEncoding(f)
         IN  IF f1.encoding \in PredefinedEncodings
             THEN [font |-> f1,
                   res |-> CASE f1.encoding = "WinAnsiEncoding" -> IntOfEncoded("cp1252", u)
                             [] f1.encoding = "StandardEncoding" -> IntOfAdobeEncoded(u)
                             [] OTHER -> IntOfEncoded("mac-roman", u)]
             ELSE IF f1.encoding = "dict" /\ f1.base_encoding \in PredefinedEncodings
             THEN LET r == ReadEncodingWithDifferences(f1)
                  IN  [font |-> r.font,
                       res |-> IF ~r.ok THEN Raised
                               ELSE IF DictHas(r.font.u2c, u)
                               THEN IntRes(DictGet(r.font.u2c, u))
                               ELSE NoneRes]
             ELSE [font |-> f1, res |-> NoneRes]

\* Most times the lookups of one font parse its CMap bytes or its
\* Differences array.
MaxParses == 2

\* A font dictionary as loaded, its lookup tables empty and nothing parsed
FontDict(cls, to_unicode, cmap, encoding, base_encoding, differences, has_first_last, has_base_font) ==
    [cls |-> cls, to_unicode |-> to_unicode, cmap |-> cmap, encoding |-> encoding,
     base_encoding |-> base_encoding, differences |-> differences,
     has_first_last |-> has_first_last, has_base_font |-> has_base_font,
     c2u |-> <<>>, u2c |-> <<>>, parses |-> 0]

\* The tables _read_cmap yields for the ToUnicode streams of the input fonts
CMapTables ==
    {<<>>,
     <<[k |-> 65, v |-> <<65>>]>>,
     <<[k |-> 65, v |-> <<65>>], [k |-> 66, v |-> <<66>>]>>,
     <<[k |-> 65, v |-> <<65>>], [k |-> 66, v |-> <<65>>]>>,
     <<[k |-> 65, v |-> <<65, 66>>]>>}

\* The entries the Differences arrays of the input fonts are made of
DifferencesEntries ==
    {Code(65), Code(66), Glyph("A"), Glyph("B"), Glyph("nosuchglyph")}

DifferencesArrays ==
    UNION {[1..n -> DifferencesEntries] : n \in 0..MaxDifferences}

EncodingNames == PredefinedEncodings \cup {"absent", "OtherEncoding"}

FontShapes ==
    {FontDict("Type1", TRUE, cm, e, "absent", <<>>, TRUE, TRUE) :
        cm \in CMapTables, e \in {"absent", "WinAnsiEncoding"}}
    \cup {FontDict("Type1", FALSE, <<>>, e, "absent", <<>>, TRUE, b) :
        e \in EncodingNames, b \in BOOLEAN}
    \cup {FontDict("Type1", FALSE, <<>>, "dict", "WinAnsiEncoding", d, fl, TRUE) :
        d \in DifferencesArrays, fl \in BOOLEAN}
    \cup {FontDict("Type1", FALSE, <<>>, "dict", "absent", <<>>, TRUE, TRUE)}
    \cup {FontDict("Standard14", FALSE, <<>>, "absent", "absent", <<>>, TRUE, TRUE)}

\* The character identifiers and strs the lookups are called with
CidSamples == {-1, 0, 53, 65, 66, 129, 255, 256, 257}

UnicodeSamples == {<<>>, <<53>>, <<65>>, <<49, 50>>, <<8364>>}

NoCall == [fn |-> "none", cid |-> 0, fwd |-> NoneRes, u |-> <<>>, rev |-> NoneRes,
           encoding_before |-> "none"]

InitFontVars ==
    /\ font \in FontShapes
    /\ last_call = NoCall

IdleFontVars ==
    /\ font = FontDict("Type1", FALSE, <<>>, "absent", "absent", <<>>, TRUE, TRUE)
    /\ last_call = NoCall

\* font.character_identifier_to_unicode(cid)
LookupCid(cid) ==
    LET r == CharacterIdentifierToUnicode(font, cid)
    IN  /\ UNCHANGED <<catalogVars, writeVars, canvasVars, moreVars>>
        /\ r.font.parses <= MaxParses
        /\ font' = r.font
        /\ last_call' = [fn |-> "c2u", cid |-> cid, fwd |-> r.res,
                         u |-> <<>>, rev |-> NoneRes,
                         encoding_before |-> font.encoding]

\* font.unicode_to_character_identifier(u); last_call keeps the latest
\* character_identifier_to_unicode call beside it
LookupUnicode(u) ==
    LET r == UnicodeToCharacterIdentifier(font, u)
    IN  /\ UNCHANGED <<catalogVars, writeVars, canvasVars, moreVars>>
        /\ r.font.parses <= MaxParses
        /\ font' = r.font
        /\ last_call' = [last_call EXCEPT !.fn = "u2c", !.u = u, !.rev = r.res,
                                          !.encoding_before = font.encoding]

NextFont ==
    \/ \E cid \in CidSamples : LookupCid(cid)
    \/ \E u \in UnicodeSamples \cup {last_call.fwd.val} : LookupUnicode(u)

-----------------------------------------------------------------------------
(***************************************************************************)
(* Write pipeline: dispatch of transform to the child transformers         *)
(***************************************************************************)

\* Number of child transformers that can be registered.
NHandlers == 3

\* Largest number of add_child_transformer calls on one root.
MaxRegistrations == 3

\* Number of objects transform is called with.
NDispatchObjects == 1

Handlers == 1..NHandlers

DispatchObjects == 1..NDispatchObjects

\* return_value = None
NoReturn == [by |-> 0, obj |-> 0]

\* What h.transform(object_to_transform, context=context) returns
ChildResult(h, o) == [by |-> h, obj |-> o]

NoTransform == [called |-> FALSE, obj |-> 0, hs |-> <<>>, consulted |-> <<>>,
                invoked |-> <<>>, return_value |-> NoReturn]

\* self.handlers = []; self.parent = None; the children's can_be_transformed
\* are what their classes make them
InitDispatchVars ==
    /\ handlers = <<>>
    /\ parent = [h \in Handlers |-> "none"]
    /\ can \in [Handlers -> SUBSET DispatchObjects]
    /\ last_transform = NoTransform

IdleDispatchVars ==
    /\ handlers = <<>>
    /\ parent = <<>>
    /\ can = <<>>
    /\ last_transform = NoTransform

\* add_child_transformer(handler)
AddChildTransformer(h) ==
    /\ Len(handlers) < MaxRegistrations
    /\ handlers' = Append(handlers, h)
    /\ parent' = [parent EXCEPT ![h] = "root"]
    /\ UNCHANGED <<can, last_transform>>
    /\ UNCHANGED notDispatchVars

\* h.can_be_transformed(object_to_transform)
CanBeTransformed(h, o) == o \in can[h]

\* The loop of transform over the handlers from index i on:
\* [consulted, invoked, return_value]
RECURSIVE DispatchAll(_, _, _)
DispatchAll(hs, i, o) ==
    IF i > Len(hs)
    THEN [consulted |-> <<>>, invoked |-> <<>>, return_value |-> NoReturn]
    ELSE LET rest == DispatchAll(hs, i + 1, o)
         IN  IF CanBeTransformed(hs[i], o)
             THEN [consulted |-> <<hs[i]>> \o rest.consulted,
                   invoked |-> <<hs[i]>> \o rest.invoked,
                   return_value |-> IF rest.invoked = <<>>
                                    THEN ChildResult(hs[i], o)
                                    ELSE rest.return_value]
             ELSE [rest EXCEPT !.consulted = <<hs[i]>> \o @]
RECURSIVE Dispatch(_, _, _)
Dispatch(hs, i, o) ==
    IF i > Len(hs)
    THEN [consulted |-> <<>>, invoked |-> <<>>, return_value |-> NoReturn]
    ELSE IF CanBeTransformed(hs[i], o)
    THEN [consulted |-> <<hs[i]>>, invoked |-> <<hs[i]>>,
          return_value |-> ChildResult(hs[i], o)]
    ELSE [Dispatch(hs, i + 1, o) EXCEPT !.consulted = <<hs[i]>> \o @]

\* transform(object_to_transform, context)
Transform(o) ==
    LET r == Dispatch(handlers, 1, o)
    IN  /\ last_transform' = [called |-> TRUE, obj |-> o, hs |-> handlers,
                              consulted |-> r.consulted, invoked |-> r.invoked,
                              return_value |-> r.return_value]
        /\ UNCHANGED <<handlers, parent, can>>
        /\ UNCHANGED notDispatchVars

NextDispatch ==
    \/ \E h \in Handlers : AddChildTransformer(h)
    \/ \E o \in DispatchObjects : Transform(o)

-----------------------------------------------------------------------------
(***************************************************************************)
(* Write pipeline: _start_object and _end_object                           *)
(* Bytes are sequences of one-character strings.                           *)
(***************************************************************************)

\* Number of objects the delimiters are written for.
NEmitObjects == 1

\* Largest number of _start_object and _end_object calls.
MaxEmits == 3

EmitObjects == 1..NEmitObjects

\* None, for a number or an offset
NoneNumber == -1

\* object.get_reference() is None
NoReference == [object_number |-> NoneNumber, generation_number |-> NoneNumber,
                byte_offset |-> NoneNumber, present |-> FALSE]

\* Reference(object_number, generation_number): byte_offset is not set
Reference(n, g) == [object_number |-> n, generation_number |-> g,
                    byte_offset |-> NoneNumber, present |-> TRUE]

\* The References the objects come with
ReferenceChoices ==
    {NoReference}
        \cup {Reference(n, g) : n \in {NoneNumber, 1, 9, 10, 12, 105},
                                g \in {NoneNumber, 0, 1, 10}}

DigitChars == <<"0", "1", "2", "3", "4", "5", "6", "7", "8", "9">>

\* "%d" % n
RECURSIVE FormatDecimal(_)
FormatDecimal(n) ==
    IF n < 0 THEN <<"-">> \o FormatDecimal(0 - n)
    ELSE IF n < 10 THEN <<DigitChars[n + 1]>>
    ELSE FormatDecimal(n \div 10) \o <<DigitChars[(n % 10) + 1]>>

\* ref.generation_number or 0
GenerationOrZero(g) == IF g = NoneNumber \/ g = 0 THEN 0 ELSE g

\* no byte is written for the header
NoHeader(n, g) == <<>>

\* bytes("%d %d obj\n" % (ref.object_number, ref.generation_number or 0), "latin1")
Header(n, g) ==
    FormatDecimal(n) \o <<" ">> \o FormatDecimal(GenerationOrZero(g))
        \o <<" ", "o", "b", "j", "\n">>

\* bytes("endobj\n\n", "latin1")
Trailer == <<"e", "n", "d", "o", "b", "j", "\n", "\n">>

\* context.destination.tell(), the destination being written at its end
TellOffByOne(dest) == Len(dest) + 1
Tell(dest) == Len(dest)

NoEmit == [fn |-> "none", obj |-> 0, outcome |-> "none", before |-> <<>>,
           ref_before |-> NoReference]

NoLog == [on |-> FALSE, starts |-> <<>>]

\* each object holds a Reference object of its own
InitEmitVars ==
    /\ destination = <<>>
    /\ reference \in [EmitObjects -> ReferenceChoices]
    /\ ref_cell = [o \in EmitObjects |-> o]
    /\ emit_log = NoLog
    /\ emits = 0
    /\ last_emit = NoEmit

\* Number of objects in the runs in which objects share a Reference.
NSharingObjects == 2

\* The References of those runs
SharedReferenceChoices ==
    {NoReference, Reference(1, 0), Reference(12, NoneNumber), Reference(NoneNumber, 0)}

\* The ways the objects hold Reference objects: object o holds the
\* Reference object of the first object it shares with
Sharings ==
    {s \in [1..NSharingObjects -> 1..NSharingObjects] :
        \A o \in 1..NSharingObjects : s[o] <= o /\ s[s[o]] = s[o]}

\* objects of which several may hold one Reference object (as after
\* get_reference gave an object the Reference of an equal object)
InitEmitSharingVars ==
    /\ destination = <<>>
    /\ reference \in [1..NSharingObjects -> SharedReferenceChoices]
    /\ ref_cell \in Sharings
    /\ emit_log = [on |-> TRUE, starts |-> <<>>]
    /\ emits = 0
    /\ last_emit = NoEmit

IdleEmitVars ==
    /\ destination = <<>>
    /\ reference = <<>>
    /\ ref_cell = <<>>
    /\ emit_log = NoLog
    /\ emits = 0
    /\ last_emit = NoEmit

\* The log after a _start_object call on object o stored byte_offset
Logged(o, byte_offset, outcome) ==
    IF emit_log.on
    THEN [emit_log EXCEPT !.starts =
              Append(@, [obj |-> o, byte_offset |-> byte_offset, outcome |-> outcome])]
    ELSE emit_log

\* assert ref is not None
ReferenceNeverMissing(ref) == FALSE
ReferenceMissing(ref) == ~ref.present

\* _start_object(object_to_transform, context)
StartObject(o) ==
    /\ emits < MaxEmits
    /\ emits' = emits + 1
    /\ LET ref == reference[ref_cell[o]]
           byte_offset == Tell(destination)
       IN  IF ReferenceMissing(ref)
           THEN \* assert ref is not None
                /\ last_emit' = [fn |-> "start", obj |-> o, outcome |-> "raised",
                                 before |-> destination, ref_before |-> ref]
                /\ UNCHANGED <<destination, reference, emit_log>>
           ELSE IF ref.object_number = NoneNumber
           THEN \* the offset is stored, then: assert ref.object_number is not None
                /\ reference' = [reference EXCEPT ![ref_cell[o]].byte_offset = byte_offset]
                /\ emit_log' = Logged(o, byte_offset, "raised")
                /\ last_emit' = [fn |-> "start", obj |-> o, outcome |-> "raised",
                                 before |-> destination, ref_before |-> ref]
                /\ UNCHANGED destination
           ELSE /\ reference' = [reference EXCEPT ![ref_cell[o]].byte_offset = byte_offset]
                /\ emit_log' = Logged(o, byte_offset, "returned")
                /\ destination' =
                       destination \o Header(ref.object_number, ref.generation_number)
                /\ last_emit' = [fn |-> "start", obj |-> o, outcome |-> "returned",
                                 before |-> destination, ref_before |-> ref]
    /\ UNCHANGED ref_cell
    /\ UNCHANGED notEmitVars

\* _end_object(object_to_transform, context)
EndObject(o) ==
    /\ emits < MaxEmits
    /\ emits' = emits + 1
    /\ destination' = destination \o Trailer
    /\ last_emit' = [fn |-> "end", obj |-> o, outcome |-> "returned",
                     before |-> destination, ref_before |-> reference[ref_cell[o]]]
    /\ UNCHANGED <<reference, ref_cell, emit_log>>
    /\ UNCHANGED notEmitVars

NextEmit ==
    \/ \E o \in EmitObjects : StartObject(o)
    \/ \E o \in EmitObjects : EndObject(o)

\* the same calls on objects of which several may hold one Reference
NextEmitSharing ==
    \/ \E o \in DOMAIN ref_cell : StartObject(o)
    \/ \E o \in DOMAIN ref_cell : EndObject(o)

-----------------------------------------------------------------------------
(***************************************************************************)
(* Text events: LeftToRightComparator                                      *)
(* Coordinates are Decimal values; the model takes the integers among them *)
(***************************************************************************)

\* Baseline coordinates of the events compared
BaselineXs == {5, 10, 20}

BaselineYs == {-10, -7, -3, 0, 2, 5, 92, 100}

Baselines == [x : BaselineXs, y : BaselineYs]

\* Decimal a % b, b > 0: the remainder has the sign of a
DecimalModFloor(a, b) == a % b
DecimalMod(a, b) == IF a >= 0 THEN a % b ELSE 0 - ((0 - a) % b)

\* y_round = y - y % 5
YRound(y) == y - DecimalMod(y, 5)

\* the distance of the baselines' x on one line, whichever comes first
CmpDistance(b0, b1) ==
    IF YRound(b0.y) = YRound(b1.y)
    THEN (IF b0.x >= b1.x THEN b0.x - b1.x ELSE b1.x - b0.x)
    ELSE 0 - (YRound(b0.y) - YRound(b1.y))

\* LeftToRightComparator.cmp(obj0, obj1), on the events' baselines
Cmp(b0, b1) ==
    IF YRound(b0.y) = YRound(b1.y) THEN b0.x - b1.x
    ELSE 0 - (YRound(b0.y) - YRound(b1.y))

NoCmp == [called |-> FALSE, obj0 |-> [x |-> 0, y |-> 0], obj1 |-> [x |-> 0, y |-> 0],
          result |-> 0]

InitEventVars == last_cmp = NoCmp

IdleEventVars == last_cmp = NoCmp

\* a call of LeftToRightComparator.cmp
CallCmp(b0, b1) ==
    /\ last_cmp' = [called |-> TRUE, obj0 |-> b0, obj1 |-> b1, result |-> Cmp(b0, b1)]
    /\ UNCHANGED notEventVars

NextEvent == \E b0 \in Baselines : \E b1 \in Baselines : CallCmp(b0, b1)

-----------------------------------------------------------------------------
(***************************************************************************)
(* Standard 14 fonts: _canonical_name, is_standard_14_font_name, get_width *)
(* A str is a sequence of one-character strings.                           *)
(***************************************************************************)

\* Largest number of glyphs in the AFM data of an input font.
MaxGlyphs == 3

STANDARD_14_FONT_NAMES ==
    <<
      <<"C", "o", "u", "r", "i", "e", "r">>,
      <<"C", "o", "u", "r", "i", "e", "r", "-", "B", "o", "l", "d">>,
      <<"C", "o", "u", "r", "i", "e", "r", "-", "B", "o", "l", "d", "-", "O", "b", "l", "i", "q", "u", "e">>,
      <<"C", "o", "u", "r", "i", "e", "r", "-", "O", "b", "l", "i", "q", "u", "e">>,
      <<"H", "e", "l", "v", "e", "t", "i", "c", "a">>,
      <<"H", "e", "l", "v", "e", "t", "i", "c", "a", "-", "B", "o", "l", "d">>,
      <<"H", "e", "l", "v", "e", "t", "i", "c", "a", "-", "B", "o", "l", "d", "-", "O", "b", "l", "i", "q", "u", "e">>,
      <<"H", "e", "l", "v", "e", "t", "i", "c", "a", "-", "O", "b", "l", "i", "q", "u", "e">>,
      <<"S", "y", "m", "b", "o", "l">>,
      <<"T", "i", "m", "e", "s", "-", "B", "o", "l", "d">>,
      <<"T", "i", "m", "e", "s", "-", "B", "o", "l", "d", "-", "I", "t", "a", "l", "i", "c">>,
      <<"T", "i", "m", "e", "s", "-", "I", "t", "a", "l", "i", "c">>,
      <<"T", "i", "m", "e", "s", "-", "R", "o", "m", "a", "n">>,
      <<"Z", "a", "p", "f", "D", "i", "n", "g", "b", "a", "t", "s">>
    >>

UpperCaseLetters ==
    <<"A", "B", "C", "D", "E", "F", "G", "H", "I", "J", "K", "L", "M", "N", "O", "P", "Q", "R", "S", "T", "U", "V", "W", "X", "Y", "Z">>

LowerCaseLetters ==
    <<"a", "b", "c", "d", "e", "f", "g", "h", "i", "j", "k", "l", "m", "n", "o", "p", "q", "r", "s", "t", "u", "v", "w", "x", "y", "z">>

\* c.lower(), for a character of an ASCII str
Lower(c) ==
    IF \E i \in 1..Len(UpperCaseLetters) : UpperCaseLetters[i] = c
    THEN LowerCaseLetters[CHOOSE i \in 1..Len(UpperCaseLetters) : UpperCaseLetters[i] = c]
    ELSE c

\* c in "abcdefghijklmnopqrstuvwxyz"
IsLowerCaseLetter(c) == \E i \in 1..Len(LowerCaseLetters) : LowerCaseLetters[i] = c

\* _to_lower_and_alpha(x)
RECURSIVE AlphaOnly(_)
AlphaOnly(x) ==
    IF x = <<>> THEN <<>>
    ELSE (IF IsLowerCaseLetter(Head(x)) THEN <<Head(x)>> ELSE <<>>)
            \o AlphaOnly(Tail(x))
RECURSIVE ToLowerAndAlpha(_)
ToLowerAndAlpha(x) ==
    IF x = <<>> THEN <<>>
    ELSE (IF IsLowerCaseLetter(Lower(Head(x))) THEN <<Lower(Head(x))>> ELSE <<>>)
            \o ToLowerAndAlpha(Tail(x))

\* return None
NoName == [found |-> FALSE, name |-> <<>>]

\* The loop of _canonical_name over the names from index i on
RECURSIVE CanonicalNameFrom(_, _)
CanonicalNameFrom(canonical_name, i) ==
    IF i > Len(STANDARD_14_FONT_NAMES) THEN NoName
    ELSE IF ToLowerAndAlpha(STANDARD_14_FONT_NAMES[i]) = canonical_name
    THEN [found |-> TRUE, name |-> STANDARD_14_FONT_NAMES[i]]
    ELSE CanonicalNameFrom(canonical_name, i + 1)

\* StandardType1Font._canonical_name(font_name)
CanonicalName(font_name) == CanonicalNameFrom(ToLowerAndAlpha(font_name), 1)

\* StandardType1Font.is_standard_14_font_name(font_name)
IsStandard14FontName(font_name) == CanonicalName(font_name).found

\* The font names the functions are called with
FontNameInputs ==
    {
      <<"C", "o", "u", "r", "i", "e", "r">>,
      <<"c", "o", "u", "r", "i", "e", "r">>,
      <<"C", "O", "U", "R", "I", "E", "R">>,
      <<"c", "O", "U", "R", "I", "E", "R">>,
      <<"C", "o", "u", "r", "i", "e", "r", "1">>,
      <<" ", "C", "o", "u", "r", "i", "e", "r">>,
      <<"C", "o", "u", "r", "i", "e", "r", "-", "M", "T">>,
      <<"C", "o", "u", "r", "i", "e">>,
      <<"C", "o", "u", "r", "i", "e", "r", "-", "B", "o", "l", "d">>,
      <<"c", "o", "u", "r", "i", "e", "r", "b", "o", "l", "d">>,
      <<"C", "O", "U", "R", "I", "E", "R", " ", "B", "O", "L", "D">>,
      <<"c", "O", "U", "R", "I", "E", "R", "-", "b", "O", "L", "D">>,
      <<"C", "o", "u", "r", "i", "e", "r", "-", "B", "o", "l", "d", "1">>,
      <<" ", "C", "o", "u", "r", "i", "e", "r", "_", "B", "o", "l", "d">>,
      <<"C", "o", "u", "r", "i", "e", "r", "-", "B", "o", "l", "d", "-", "M", "T">>,
      <<"C", "o", "u", "r", "i", "e", "r", "-", "B", "o", "l">>,
      <<"C", "o", "u", "r", "i", "e", "r", "-", "B", "o", "l", "d", "-", "O", "b", "l", "i", "q", "u", "e">>,
      <<"c", "o", "u", "r", "i", "e", "r", "b", "o", "l", "d", "o", "b", "l", "i", "q", "u", "e">>,
      <<"C", "O", "U", "R", "I", "E", "R", " ", "B", "O", "L", "D", " ", "O", "B", "L", "I", "Q", "U", "E">>,
      <<"c", "O", "U", "R", "I", "E", "R", "-", "b", "O", "L", "D", "-", "o", "B", "L", "I", "Q", "U", "E">>,
      <<"C", "o", "u", "r", "i", "e", "r", "-", "B", "o", "l", "d", "-", "O", "b", "l", "i", "q", "u", "e", "1">>,
      <<" ", "C", "o", "u", "r", "i", "e", "r", "_", "B", "o", "l", "d", "_", "O", "b", "l", "i", "q", "u", "e">>,
      <<"C", "o", "u", "r", "i", "e", "r", "-", "B", "o", "l", "d", "-", "O", "b", "l", "i", "q", "u", "e", "-", "M", "T">>,
      <<"C", "o", "u", "r", "i", "e", "r", "-", "B", "o", "l", "d", "-", "O", "b", "l", "i", "q", "u">>,
      <<"C", "o", "u", "r", "i", "e", "r", "-", "O", "b", "l", "i", "q", "u", "e">>,
      <<"c", "o", "u", "r", "i", "e", "r", "o", "b", "l", "i", "q", "u", "e">>,
      <<"C", "O", "U", "R", "I", "E", "R", " ", "O", "B", "L", "I", "Q", "U", "E">>,
      <<"c", "O", "U", "R", "I", "E", "R", "-", "o", "B", "L", "I", "Q", "U", "E">>,
      <<"C", "o", "u", "r", "i", "e", "r", "-", "O", "b", "l", "i", "q", "u", "e", "1">>,
      <<" ", "C", "o", "u", "r", "i", "e", "r", "_", "O", "b", "l", "i", "q", "u", "e">>,
      <<"C", "o", "u", "r", "i", "e", "r", "-", "O", "b", "l", "i", "q", "u", "e", "-", "M", "T">>,
      <<"C", "o", "u", "r", "i", "e", "r", "-", "O", "b", "l", "i", "q", "u">>,
      <<"H", "e", "l", "v", "e", "t", "i", "c", "a">>,
      <<"h", "e", "l", "v", "e", "t", "i", "c", "a">>,
      <<"H", "E", "L", "V", "E", "T", "I", "C", "A">>,
      <<"h", "E", "L", "V", "E", "T", "I", "C", "A">>,
      <<"H", "e", "l", "v", "e", "t", "i", "c", "a", "1">>,
      <<" ", "H", "e", "l", "v", "e", "t", "i", "c", "a">>,
      <<"H", "e", "l", "v", "e", "t", "i", "c", "a", "-", "M", "T">>,
      <<"H", "e", "l", "v", "e", "t", "i", "c">>,
      <<"H", "e", "l", "v", "e", "t", "i", "c", "a", "-", "B", "o", "l", "d">>,
      <<"h", "e", "l", "v", "e", "t", "i", "c", "a", "b", "o", "l", "d">>,
      <<"H", "E", "L", "V", "E", "T", "I", "C", "A", " ", "B", "O", "L", "D">>,
      <<"h", "E", "L", "V", "E", "T", "I", "C", "A", "-", "b", "O", "L", "D">>,
      <<"H", "e", "l", "v", "e", "t", "i", "c", "a", "-", "B", "o", "l", "d", "1">>,
      <<" ", "H", "e", "l", "v", "e", "t", "i", "c", "a", "_", "B", "o", "l", "d">>,
      <<"H", "e", "l", "v", "e", "t", "i", "c", "a", "-", "B", "o", "l", "d", "-", "M", "T">>,
      <<"H", "e", "l", "v", "e", "t", "i", "c", "a", "-", "B", "o", "l">>,
      <<"H", "e", "l", "v", "e", "t", "i", "c", "a", "-", "B", "o", "l", "d", "-", "O", "b", "l", "i", "q", "u", "e">>,
      <<"h", "e", "l", "v", "e", "t", "i", "c", "a", "b", "o", "l", "d", "o", "b", "l", "i", "q", "u", "e">>,
      <<"H", "E", "L", "V", "E", "T", "I", "C", "A", " ", "B", "O", "L", "D", " ", "O", "B", "L", "I", "Q", "U", "E">>,
      <<"h", "E", "L", "V", "E", "T", "I", "C", "A", "-", "b", "O", "L", "D", "-", "o", "B", "L", "I", "Q", "U", "E">>,
      <<"H", "e", "l", "v", "e", "t", "i", "c", "a", "-", "B", "o", "l", "d", "-", "O", "b", "l", "i", "q", "u", "e", "1">>,
      <<" ", "H", "e", "l", "v", "e", "t", "i", "c", "a", "_", "B", "o", "l", "d", "_", "O", "b", "l", "i", "q", "u", "e">>,
      <<"H", "e", "l", "v", "e", "t", "i", "c", "a", "-", "B", "o", "l", "d", "-", "O", "b", "l", "i", "q", "u", "e", "-", "M", "T">>,
      <<"H", "e", "l", "v", "e", "t", "i", "c", "a", "-", "B", "o", "l", "d", "-", "O", "b", "l", "i", "q", "u">>,
      <<"H", "e", "l", "v", "e", "t", "i", "c", "a", "-", "O", "b", "l", "i", "q", "u", "e">>,
      <<"h", "e", "l", "v", "e", "t", "i", "c", "a", "o", "b", "l", "i", "q", "u", "e">>,
      <<"H", "E", "L", "V", "E", "T", "I", "C", "A", " ", "O", "B", "L", "I", "Q", "U", "E">>,
      <<"h", "E", "L", "V", "E", "T", "I", "C", "A", "-", "o", "B", "L", "I", "Q", "U", "E">>,
      <<"H", "e", "l", "v", "e", "t", "i", "c", "a", "-", "O", "b", "l", "i", "q", "u", "e", "1">>,
      <<" ", "H", "e", "l", "v", "e", "t", "i", "c", "a", "_", "O", "b", "l", "i", "q", "u", "e">>,
      <<"H", "e", "l", "v", "e", "t", "i", "c", "a", "-", "O", "b", "l", "i", "q", "u", "e", "-", "M", "T">>,
      <<"H", "e", "l", "v", "e", "t", "i", "c", "a", "-", "O", "b", "l", "i", "q", "u">>,
      <<"S", "y", "m", "b", "o", "l">>,
      <<"s", "y", "m", "b", "o", "l">>,
      <<"S", "Y", "M", "B", "O", "L">>,
      <<"s", "Y", "M", "B", "O", "L">>,
      <<"S", "y", "m", "b", "o", "l", "1">>,
      <<" ", "S", "y", "m", "b", "o", "l">>,
      <<"S", "y", "m", "b", "o", "l", "-", "M", "T">>,
      <<"S", "y", "m", "b", "o">>,
      <<"T", "i", "m", "e", "s", "-", "B", "o", "l", "d">>,
      <<"t", "i", "m", "e", "s", "b", "o", "l", "d">>,
      <<"T", "I", "M", "E", "S", " ", "B", "O", "L", "D">>,
      <<"t", "I", "M", "E", "S", "-", "b", "O", "L", "D">>,
      <<"T", "i", "m", "e", "s", "-", "B", "o", "l", "d", "1">>,
      <<" ", "T", "i", "m", "e", "s", "_", "B", "o", "l", "d">>,
      <<"T", "i", "m", "e", "s", "-", "B", "o", "l", "d", "-", "M", "T">>,
      <<"T", "i", "m", "e", "s", "-", "B", "o", "l">>,
      <<"T", "i", "m", "e", "s", "-", "B", "o", "l", "d", "-", "I", "t", "a", "l", "i", "c">>,
      <<"t", "i", "m", "e", "s", "b", "o", "l", "d", "i", "t", "a", "l", "i", "c">>,
      <<"T", "I", "M", "E", "S", " ", "B", "O", "L", "D", " ", "I", "T", "A", "L", "I", "C">>,
      <<"t", "I", "M", "E", "S", "-", "b", "O", "L", "D", "-", "i", "T", "A", "L", "I", "C">>,
      <<"T", "i", "m", "e", "s", "-", "B", "o", "l", "d", "-", "I", "t", "a", "l", "i", "c", "1">>,
      <<" ", "T", "i", "m", "e", "s", "_", "B", "o", "l", "d", "_", "I", "t", "a", "l", "i", "c">>,
      <<"T", "i", "m", "e", "s", "-", "B", "o", "l", "d", "-", "I", "t", "a", "l", "i", "c", "-", "M", "T">>,
      <<"T", "i", "m", "e", "s", "-", "B", "o", "l", "d", "-", "I", "t", "a", "l", "i">>,
      <<"T", "i", "m", "e", "s", "-", "I", "t", "a", "l", "i", "c">>,
      <<"t", "i", "m", "e", "s", "i", "t", "a", "l", "i", "c">>,
      <<"T", "I", "M", "E", "S", " ", "I", "T", "A", "L", "I", "C">>,
      <<"t", "I", "M", "E", "S", "-", "i", "T", "A", "L", "I", "C">>,
      <<"T", "i", "m", "e", "s", "-", "I", "t", "a", "l", "i", "c", "1">>,
      <<" ", "T", "i", "m", "e", "s", "_", "I", "t", "a", "l", "i", "c">>,
      <<"T", "i", "m", "e", "s", "-", "I", "t", "a", "l", "i", "c", "-", "M", "T">>,
      <<"T", "i", "m", "e", "s", "-", "I", "t", "a", "l", "i">>,
      <<"T", "i", "m", "e", "s", "-", "R", "o", "m", "a", "n">>,
      <<"t", "i", "m", "e", "s", "r", "o", "m", "a", "n">>,
      <<"T", "I", "M", "E", "S", " ", "R", "O", "M", "A", "N">>,
      <<"t", "I", "M", "E", "S", "-", "r", "O", "M", "A", "N">>,
      <<"T", "i", "m", "e", "s", "-", "R", "o", "m", "a", "n", "1">>,
      <<" ", "T", "i", "m", "e", "s", "_", "R", "o", "m", "a", "n">>,
      <<"T", "i", "m", "e", "s", "-", "R", "o", "m", "a", "n", "-", "M", "T">>,
      <<"T", "i", "m", "e", "s", "-", "R", "o", "m", "a">>,
      <<"Z", "a", "p", "f", "D", "i", "n", "g", "b", "a", "t", "s">>,
      <<"z", "a", "p", "f", "d", "i", "n", "g", "b", "a", "t", "s">>,
      <<"Z", "A", "P", "F", "D", "I", "N", "G", "B", "A", "T", "S">>,
      <<"z", "A", "P", "F", "d", "I", "N", "G", "B", "A", "T", "S">>,
      <<"Z", "a", "p", "f", "D", "i", "n", "g", "b", "a", "t", "s", "1">>,
      <<" ", "Z", "a", "p", "f", "D", "i", "n", "g", "b", "a", "t", "s">>,
      <<"Z", "a", "p", "f", "D", "i", "n", "g", "b", "a", "t", "s", "-", "M", "T">>,
      <<"Z", "a", "p", "f", "D", "i", "n", "g", "b", "a", "t">>,
      <<"A", "r", "i", "a", "l">>,
      <<>>,
      <<"H", "e", "l", "v", "e", "t", "i", "c", "a", "2">>,
      <<"C", "o", "u", "r", "i", "e", "r", "-", "B", "o", "l", "d", "O", "b", "l", "i", "q", "u", "e">>,
      <<"T", "i", "m", "e", "s">>,
      <<"1", "2", "-", "3", "4">>,
      <<"H", "e", "l", "v", "e", "t", "i", "c", "a", "_", "B", "o", "l", "d", "!">>,
      <<"s", "y", "m", "b", "o", "l", "s">>
    }

\* The items of self._afm._chars: v[0] is the character code, v[1] the width
AfmEntries == [code : {-1, 65, 66}, width : {500, 667}]

AfmTables == UNION {[1..n -> AfmEntries] : n \in 0..MaxGlyphs}

\* [pDecimal(v[1]) for k, v in self._afm._chars.items() if v[0] == character_identifier]
RECURSIVE WidthsOf(_, _)
WidthsOf(chars, character_identifier) ==
    IF chars = <<>> THEN <<>>
    ELSE (IF Head(chars).code = character_identifier
          THEN <<Head(chars).width>> ELSE <<>>)
            \o WidthsOf(Tail(chars), character_identifier)

\* StandardType1Font.get_width(character_identifier)
GetWidth(chars, character_identifier) ==
    LET widths == WidthsOf(chars, character_identifier)
    IN  IF Len(widths) = 1 THEN widths[1] ELSE 0

NoNameCall == [called |-> FALSE, font_name |-> <<>>, result |-> NoName,
               is_standard |-> FALSE]

NoWidthCall == [called |-> FALSE, cid |-> 0, result |-> 0]

InitStdFontVars ==
    /\ afm_chars \in AfmTables
    /\ last_name = NoNameCall
    /\ last_width = NoWidthCall

IdleStdFontVars ==
    /\ afm_chars = <<>>
    /\ last_name = NoNameCall
    /\ last_width = NoWidthCall

\* _canonical_name(font_name) and is_standard_14_font_name(font_name)
CallCanonicalName(font_name) ==
    /\ last_name' = [called |-> TRUE, font_name |-> font_name,
                     result |-> CanonicalName(font_name),
                     is_standard |-> IsStandard14FontName(font_name)]
    /\ UNCHANGED <<afm_chars, last_width>>
    /\ UNCHANGED notStdFontVars

\* get_width(character_identifier)
CallGetWidth(cid) ==
    /\ last_width' = [called |-> TRUE, cid |-> cid, result |-> GetWidth(afm_chars, cid)]
    /\ UNCHANGED <<afm_chars, last_name>>
    /\ UNCHANGED notStdFontVars

\* calls of the static name functions
NextStdFontName == \E font_name \in FontNameInputs : CallCanonicalName(font_name)

\* calls of get_width on a font constructed from AFM data
NextStdFontWidth == \E cid \in {-1, 65, 66, 67} : CallGetWidth(cid)

-----------------------------------------------------------------------------
(***************************************************************************)
(* Structural hashing of the PDF values (WriteBaseTransformer._hash)       *)
(***************************************************************************)

\* Longest List, and most entries of a Dictionary, handed to _hash.
MaxElems == 2

\* A value is [type, num, items]: a leaf has no items; the items of a List
\* are its elements in order (key 0); the items of a Dictionary are its
\* entries, one per key, in the order they were inserted.
\*   Name: num 1 is Root, 2 is Marked, 3 is Red
\*   Decimal: num counts tenths (5 is Decimal(0.5), -32 is Decimal(-3.2))
\*   Reference: num is the object_number
\*   Other: a value whose class defines no __hash__
Leaf(t, n) == [type |-> t, num |-> n, items |-> <<>>]

Item(k, l) == [key |-> k, type |-> l.type, num |-> l.num]

PdfLeaves ==
    {Leaf("Name", 3), Leaf("Boolean", 1), Leaf("Decimal", 0),
     Leaf("Decimal", 5), Leaf("Decimal", -32), Leaf("Reference", 10)}

Leaves == PdfLeaves \cup {Leaf("Other", 0)}

\* the Names Root and Marked
DictionaryKeys == {1, 2}

ListsOf(leaves) ==
    {[type |-> "List", num |-> 0, items |-> [i \in 1..Len(els) |-> Item(0, els[i])]] :
        els \in UNION {[1..k -> leaves] : k \in 0..MaxElems}}

\* the orders in which at most MaxElems different keys can be inserted
KeyOrders ==
    {ks \in UNION {[1..k -> DictionaryKeys] : k \in 0..MaxElems} :
        \A i, j \in 1..Len(ks) : ks[i] = ks[j] => i = j}

\* A Dictionary keeps its entries in insertion order: the same entries
\* inserted in another order are another value.
DictionariesOf(leaves) ==
    UNION {{[type |-> "Dictionary", num |-> 0,
             items |-> [i \in 1..Len(ks) |-> Item(ks[i], ls[i])]] :
                ls \in [1..Len(ks) -> leaves]} : ks \in KeyOrders}

\* the values handed to _hash
HashInputs == Leaves \cup ListsOf(Leaves) \cup DictionariesOf(Leaves)

\* The object with identity id that holds the value v: two objects are
\* never the same object, whatever they hold.
Object(id, v) == [id |-> id, type |-> v.type, num |-> v.num, items |-> v.items]

\* a value every part of which is one of the PDF value types
IsPdfValue(v) ==
    /\ v.type # "Other"
    /\ \A i \in 1..Len(v.items) : v.items[i].type # "Other"

\* __hash__ of a leaf type
LeafHash(t, n) ==
    CASE t = "Name" -> IntRes(100 + n)
      [] t = "Boolean" -> IntRes(n)
      [] t = "Decimal" -> IntRes(n)
      [] t = "Reference" -> IntRes(n)
      [] OTHER -> Raised

\* __hash__ of a List (t = "List") or a Dictionary over its first i items:
\* raises when an item cannot be hashed.  The elements of a List count in
\* their order; the entries of a Dictionary, each the Name of its key with
\* its value, count whatever their order.
RECURSIVE ItemsHash(_, _, _)
ItemsHash(t, items, i) ==
    IF i = 0 THEN IntRes(1)
    ELSE LET rest == ItemsHash(t, items, i - 1)
             e == LeafHash(items[i].type, items[i].num)
         IN  IF rest.tag # "int" \/ e.tag # "int" THEN Raised
             ELSE IF t = "List" THEN IntRes(31 * rest.num + e.num)
             ELSE IntRes(rest.num + 31 * (100 + items[i].key) + e.num)

\* the __hash__ method of the class of a value
TypeHash(v) ==
    IF v.type \in {"List", "Dictionary"} THEN ItemsHash(v.type, v.items, Len(v.items))
    ELSE LeafHash(v.type, v.num)

\* obj.__hash__(): what the method returns, as it returns it
DunderHash(obj) == TypeHash(obj)

\* hash(obj): calls the same method, and gives -2 where the method
\* returned -1
BuiltinHash(obj) ==
    IF DunderHash(obj) = IntRes(-1) THEN IntRes(-2) ELSE DunderHash(obj)

\* _hash with object.__hash__(obj) in place of obj.__hash__(): the hash of
\* the identity of the object
HashByIdentity(obj) == IntRes(1000 + obj.id)

\* _hash(obj): h is set by whichever of the two tries succeeds, by the
\* second when both do; TypeError when it is still None
Hash(obj) ==
    LET h1 == IF BuiltinHash(obj).tag = "int" THEN BuiltinHash(obj) ELSE NoneRes
        h2 == IF DunderHash(obj).tag = "int" THEN DunderHash(obj) ELSE h1
    IN  IF h2 = NoneRes THEN Raised ELSE h2

\* two objects, each holding one of the values
InitHashVars ==
    /\ hash_objs \in {<<Object(1, a), Object(2, b)>> : a, b \in HashInputs}
    /\ hash_results = [i \in 1..2 |-> NoneRes]

IdleHashVars ==
    /\ hash_objs = <<>>
    /\ hash_results = <<>>

\* _hash called on each of the two values
CallHash ==
    /\ hash_results = [i \in 1..2 |-> NoneRes]
    /\ hash_results' = [i \in 1..2 |-> Hash(hash_objs[i])]
    /\ UNCHANGED hash_objs
    /\ UNCHANGED notHashVars

NextHash == CallHash

-----------------------------------------------------------------------------
(***************************************************************************)
(* Text render events (ChunkOfTextRenderEvent)                             *)
(*                                                                         *)
(* Coordinates are Decimal numbers, computed as the decimal module         *)
(* computes them: every sum, difference and product is rounded to the 28   *)
(* significant digits of the default context, half to even.  A font metric *)
(* (ascent, descent) is multiplied by Decimal(0.001), the exact value of   *)
(* the float 0.001, which is a little more than a thousandth.  The inputs  *)
(* give matrix entries and font metrics as integers and the text rise,     *)
(* the translations and the glyph widths as integers of thousandths.       *)
(*                                                                         *)
(* A Decimal is the record [neg, c, e] of the number                       *)
(* (-1)^neg * (c[1] + c[2] * 10000 + c[3] * 10000^2 + ...) * 10000^e:      *)
(* its coefficient c is a sequence of groups of four decimal digits, the   *)
(* least significant group first.                                          *)
(***************************************************************************)

\* Longest glyph line of an event.
MaxLineGlyphs == 2

Min(a, b) == IF a <= b THEN a ELSE b

Abs(a) == IF a >= 0 THEN a ELSE 0 - a

\* The i-th group of a coefficient
GroupAt(c, i) == IF i <= Len(c) THEN c[i] ELSE 0

RECURSIVE WithoutHighZeros(_)
WithoutHighZeros(c) ==
    IF c # <<>> /\ c[Len(c)] = 0 THEN WithoutHighZeros(SubSeq(c, 1, Len(c) - 1)) ELSE c

\* the number of zero groups at the low end of a coefficient that is not 0
LowZeros(c) ==
    CHOOSE k \in 0..(Len(c) - 1) : c[k + 1] # 0 /\ \A i \in 1..k : c[i] = 0

\* The Decimal (-1)^neg * c * 10000^e, in the form that stands for its
\* value: no zero group at either end of the coefficient, and 0 written
\* one way
Decimal(neg, c, e) ==
    LET d == WithoutHighZeros(c)
    IN  IF d = <<>>
        THEN [neg |-> FALSE, c |-> <<>>, e |-> 0]
        ELSE LET k == LowZeros(d)
             IN  [neg |-> neg, c |-> SubSeq(d, k + 1, Len(d)), e |-> e + k]

RECURSIVE GroupsOf(_)
GroupsOf(n) == IF n = 0 THEN <<>> ELSE <<n % 10000>> \o GroupsOf(n \div 10000)

\* Decimal(n) of an integer
DecimalOfInt(n) == Decimal(n < 0, GroupsOf(Abs(n)), 0)

\* the Decimal that is n thousandths
Thousandths(n) == Decimal(n < 0, GroupsOf(Abs(n) * 10), -1)

Reversed(s) == [i \in 1..Len(s) |-> s[Len(s) + 1 - i]]

\* Decimal(0.001): the float 0.001 written out,
\* 0.001000000000000000020816681711721685132943093776702880859375,
\* 58 digits times 10^-60
DecimalOfFloat001 ==
    Decimal(FALSE,
            Reversed(<<10, 0, 0, 0, 2, 816, 6817, 1172, 1685, 1329, 4309, 3776, 7028, 8085, 9375>>),
            -15)

RECURSIVE NatAddFrom(_, _, _, _)
NatAddFrom(a, b, i, carry) ==
    IF i > Len(a) /\ i > Len(b)
    THEN IF carry = 0 THEN <<>> ELSE <<carry>>
    ELSE LET s == GroupAt(a, i) + GroupAt(b, i) + carry
         IN  <<s % 10000>> \o NatAddFrom(a, b, i + 1, s \div 10000)

\* a - b of coefficients, a being at least b
RECURSIVE NatSubFrom(_, _, _, _)
NatSubFrom(a, b, i, borrow) ==
    IF i > Len(a)
    THEN <<>>
    ELSE LET s == GroupAt(a, i) - GroupAt(b, i) - borrow
         IN  <<IF s < 0 THEN s + 10000 ELSE s>>
                 \o NatSubFrom(a, b, i + 1, IF s < 0 THEN 1 ELSE 0)

\* a < b of coefficients without high zeros
NatLess(a, b) ==
    IF Len(a) # Len(b)
    THEN Len(a) < Len(b)
    ELSE \E i \in 1..Len(a) :
             a[i] < b[i] /\ \A j \in (i + 1)..Len(a) : a[j] = b[j]

\* a times the group k
RECURSIVE NatTimesFrom(_, _, _, _)
NatTimesFrom(a, k, i, carry) ==
    IF i > Len(a)
    THEN IF carry = 0 THEN <<>> ELSE <<carry>>
    ELSE LET s == a[i] * k + carry
         IN  <<s % 10000>> \o NatTimesFrom(a, k, i + 1, s \div 10000)

\* a times the groups of b from the i-th on
RECURSIVE NatProductFrom(_, _, _)
NatProductFrom(a, b, i) ==
    IF i > Len(b)
    THEN <<>>
    ELSE NatAddFrom(NatTimesFrom(a, b[i], 1, 0), <<0>> \o NatProductFrom(a, b, i + 1), 1, 0)

NatProduct(a, b) ==
    IF Len(a) < Len(b) THEN NatProductFrom(b, a, 1) ELSE NatProductFrom(a, b, 1)

\* coefficient c with n zero groups put below it
Shifted(c, n) == IF c = <<>> THEN <<>> ELSE [i \in 1..n |-> 0] \o c

\* the number of decimal digits of a group that is not 0
DigitsOfGroup(g) == IF g >= 1000 THEN 4 ELSE IF g >= 100 THEN 3 ELSE IF g >= 10 THEN 2 ELSE 1

PowerOfTen(r) == IF r = 0 THEN 1 ELSE IF r = 1 THEN 10 ELSE IF r = 2 THEN 100 ELSE 1000

\* The result of an operation as the context gives it: the 28 most
\* significant digits, the rest rounded half to even.  Of the k digits
\* that go, 4 * q fill the q lowest groups and r are the low digits of
\* the next group.
RoundedToContext(d) ==
    LET k == 4 * (Len(d.c) - 1) + DigitsOfGroup(d.c[Len(d.c)]) - 28
    IN  IF d.c = <<>> \/ k <= 0
        THEN d
        ELSE LET q == k \div 4
                 r == k % 4
                 unit == PowerOfTen(r)
                 group == d.c[q + 1]
                 kept == [i \in 1..(Len(d.c) - q) |->
                              IF i = 1 THEN group - (group % unit) ELSE d.c[q + i]]
                 gone == IF r = 0 THEN d.c[q] ELSE group % unit
                 half == IF r = 0 THEN 5000 ELSE 5 * PowerOfTen(r - 1)
                 below == \E i \in 1..(IF r = 0 THEN q - 1 ELSE q) : d.c[i] # 0
                 odd == (group \div unit) % 2 = 1
                 up == \/ gone > half
                       \/ gone = half /\ (below \/ odd)
             IN  Decimal(d.neg,
                         IF up THEN NatAddFrom(kept, <<unit>>, 1, 0) ELSE kept,
                         d.e + q)

Negated(a) == [a EXCEPT !.neg = (a.c # <<>> /\ ~a.neg)]

\* a + b of the numbers, not rounded
ExactSum(a, b) ==
    LET e == Min(a.e, b.e)
        ca == Shifted(a.c, a.e - e)
        cb == Shifted(b.c, b.e - e)
    IN  IF a.neg = b.neg
        THEN Decimal(a.neg, NatAddFrom(ca, cb, 1, 0), e)
        ELSE IF NatLess(ca, cb)
             THEN Decimal(b.neg, NatSubFrom(cb, ca, 1, 0), e)
             ELSE Decimal(a.neg, NatSubFrom(ca, cb, 1, 0), e)

\* a + b
Sum(a, b) == RoundedToContext(ExactSum(a, b))

\* a - b
Difference(a, b) == RoundedToContext(ExactSum(a, Negated(b)))

\* a * b
Product(a, b) ==
    RoundedToContext(Decimal(a.neg # b.neg, NatProduct(a.c, b.c), a.e + b.e))

\* a < b
Less(a, b) == ExactSum(a, Negated(b)).neg

\* min(a, b)
Minimum(a, b) == IF Less(b, a) THEN b ELSE a

\* abs(a)
Absolute(a) == [a EXCEPT !.neg = FALSE]

\* metric * Decimal(0.001)
TimesDecimal001(metric) == Product(DecimalOfInt(metric), DecimalOfFloat001)

\* A matrix [a b 0; c d 0; e f 1]
Matrix(a, b, c, d, e, f) == [a |-> a, b |-> b, c |-> c, d |-> d, e |-> e, f |-> f]

\* m0.mul(m1); the entries of the inputs are short, so that no product or
\* sum of them is rounded
Mul(m0, m1) ==
    Matrix(m0.a * m1.a + m0.b * m1.c, m0.a * m1.b + m0.b * m1.d,
           m0.c * m1.a + m0.d * m1.c, m0.c * m1.b + m0.d * m1.d,
           m0.e * m1.a + m0.f * m1.c + m1.e, m0.e * m1.b + m0.f * m1.d + m1.f)

\* m.cross(x, y, Decimal(1)): the first two coordinates, each
\* x * m[0][k] + y * m[1][k] + 1 * m[2][k]
Cross(m, x, y) ==
    <<Sum(Sum(Product(x, DecimalOfInt(m.a)), Product(y, DecimalOfInt(m.c))),
          Thousandths(m.e)),
      Sum(Sum(Product(x, DecimalOfInt(m.b)), Product(y, DecimalOfInt(m.d))),
          Thousandths(m.f))>>

Rectangle(x, y, w, h) == [x |-> x, y |-> y, width |-> w, height |-> h]

\* Rectangle(min(p0[0], p1[0]), min(p0[1], p1[1]), abs(p1[0] - p0[0]), abs(p1[1] - p0[1]))
SpanOf(p0, p1) ==
    Rectangle(Minimum(p0[1], p1[1]), Minimum(p0[2], p1[2]),
              Absolute(Difference(p1[1], p0[1])), Absolute(Difference(p1[2], p0[2])))

\* Rectangle(p0[0], p0[1], p1[0] - p0[0], p1[1] - p0[1])
FromTo(p0, p1) ==
    Rectangle(p0[1], p0[2], Difference(p1[1], p0[1]), Difference(p1[2], p0[2]))

\* The glyphs of the input lines: their text and width in text space
Glyphs ==
    {[text |-> "a", width |-> 500], [text |-> "y", width |-> 400],
     [text |-> "P", width |-> 600], [text |-> " ", width |-> 250]}

GlyphLines == UNION {[1..n -> Glyphs] : n \in 0..MaxLineGlyphs}

\* glyph_line.get_text(), one character each
TextOfLine(line) == [i \in 1..Len(line) |-> line[i].text]

\* glyph_line.get_width_in_text_space() of the first n glyphs, in
\* thousandths
RECURSIVE WidthInTextSpace(_, _)
WidthInTextSpace(line, n) ==
    IF n = 0 THEN 0 ELSE WidthInTextSpace(line, n - 1) + line[n].width

DescentLetters == {"y", "p", "q", "f", "g", "j"}

\* any([x in self.text.lower() for x in ["y", "p", "q", "f", "g", "j"]])
UsesDescent(text) == \E i \in 1..Len(text) : Lower(text[i]) \in DescentLetters

\* g.uses_descent() of a one-glyph line
GlyphUsesDescent(g) == Lower(g.text) \in DescentLetters

TextMatrices == {Matrix(1, 0, 0, 1, 0, 0), Matrix(1, 0, 0, 1, 10000, 20000)}

\* identity, a scaling, a quarter turn, and the two mirrorings
Ctms ==
    {Matrix(1, 0, 0, 1, 0, 0), Matrix(2, 0, 0, 3, 5000, 0), Matrix(0, 1, -1, 0, 0, 0),
     Matrix(1, 0, 0, -1, 0, 0), Matrix(-1, 0, 0, 1, 0, 0)}

\* The graphics states of the inputs: font.get_ascent() and
\* font.get_descent() stand for the font
GraphicsStates ==
    [text_matrix : TextMatrices, ctm : Ctms, text_rise : {0, 3000},
     ascent : {-100, 0, 700, 905}, descent : {-200, 0, 100},
     font : {"F1"}, font_size : {12}, non_stroke_color : {"black"}]

\* current_font.get_space_character_width_estimate()
SpaceCharacterWidthEstimate(current_font) == 250

\* ChunkOfTextRenderEvent(graphics_state, raw_bytes), the glyph line given
ChunkOfTextRenderEvent(gs, line) ==
    LET m == Mul(gs.text_matrix, gs.ctm)
        width == Thousandths(WidthInTextSpace(line, Len(line)))
        text == TextOfLine(line)
        text_rise == Thousandths(gs.text_rise)
        p1 == Cross(m, width, Sum(text_rise, TimesDecimal001(gs.ascent)))
        baseline == SpanOf(Cross(m, DecimalOfInt(0), text_rise), p1)
    IN  [font |-> gs.font,
         font_size |-> gs.font_size,
         font_color |-> gs.non_stroke_color,
         text |-> text,
         glyph_line |-> line,
         baseline_bounding_box |-> baseline,
         bounding_box |->
             IF UsesDescent(text)
             THEN SpanOf(Cross(m, DecimalOfInt(0),
                               Sum(text_rise, TimesDecimal001(gs.descent))),
                         p1)
             ELSE baseline,
         space_character_width_estimate |->
             SpaceCharacterWidthEstimate(gs.font) * gs.font_size,
         graphics_state |-> gs]

NoEvent == [font |-> "none"]

NoSplit == <<[font |-> "none"]>>

InitChunkVars ==
    /\ chunk_gs \in GraphicsStates
    /\ chunk_line \in GlyphLines
    /\ chunk_event = NoEvent
    /\ chunk_split = NoSplit

IdleChunkVars ==
    /\ chunk_gs = <<>>
    /\ chunk_line = <<>>
    /\ chunk_event = NoEvent
    /\ chunk_split = NoSplit

\* the event is constructed
NewChunkOfTextRenderEvent ==
    /\ chunk_event = NoEvent
    /\ chunk_event' = ChunkOfTextRenderEvent(chunk_gs, chunk_line)
    /\ UNCHANGED <<chunk_gs, chunk_line, chunk_split>>
    /\ UNCHANGED notChunkVars

\* x is left where it was
NotAdvanced(x, g) == x

\* x += g.get_width_in_text_space()
Advanced(x, g) == Sum(x, Thousandths(g.width))

\* the event made for glyph g at text-space x in split_on_glyphs
GlyphEvent(ev, g, x) ==
    LET gs == ev.graphics_state
        y == Thousandths(gs.text_rise)
        m == Mul(gs.text_matrix, gs.ctm)
        p1 == Cross(m, Sum(x, Thousandths(g.width)), Sum(y, TimesDecimal001(gs.ascent)))
        baseline == FromTo(Cross(m, x, y), p1)
    IN  [font |-> ev.font,
         font_size |-> ev.font_size,
         font_color |-> ev.font_color,
         text |-> <<g.text>>,
         glyph_line |-> <<g>>,
         baseline_bounding_box |-> baseline,
         bounding_box |->
             IF GlyphUsesDescent(g)
             THEN SpanOf(Cross(m, x, Sum(y, TimesDecimal001(gs.descent))), p1)
             ELSE baseline,
         space_character_width_estimate |-> ev.space_character_width_estimate,
         graphics_state |-> gs]

\* the loop of split_on_glyphs from glyph i on, x being the sum so far
RECURSIVE SplitFrom(_, _, _)
SplitFrom(ev, i, x) ==
    IF i > Len(ev.glyph_line)
    THEN <<>>
    ELSE <<GlyphEvent(ev, ev.glyph_line[i], x)>>
             \o SplitFrom(ev, i + 1, Advanced(x, ev.glyph_line[i]))

\* event.split_on_glyphs()
SplitOnGlyphs ==
    /\ chunk_event # NoEvent
    /\ chunk_split = NoSplit
    /\ chunk_split' = SplitFrom(chunk_event, 1, DecimalOfInt(0))
    /\ UNCHANGED <<chunk_gs, chunk_line, chunk_event>>
    /\ UNCHANGED notChunkVars

NextChunk == NewChunkOfTextRenderEvent \/ SplitOnGlyphs

-----------------------------------------------------------------------------
(* Specifications *)

IdleExtraVars == IdleHashVars /\ IdleChunkVars

IdleMoreVars ==
    IdleDispatchVars /\ IdleEmitVars /\ IdleEventVars /\ IdleStdFontVars /\ IdleExtraVars

IdleBaseVars == IdleCatalogVars /\ IdleWriteVars /\ IdleCanvasVars /\ IdleFontVars

IdleOldVars ==
    IdleBaseVars /\ IdleDispatchVars /\ IdleEmitVars /\ IdleEventVars /\ IdleStdFontVars

InitCatalog == InitCatalogVars /\ IdleWriteVars /\ IdleCanvasVars /\ IdleFontVars /\ IdleMoreVars

InitWrite == IdleCatalogVars /\ InitWriteVars /\ IdleCanvasVars /\ IdleFontVars /\ IdleMoreVars

InitCanvas == IdleCatalogVars /\ IdleWriteVars /\ InitCanvasVars /\ IdleFontVars /\ IdleMoreVars

InitFont == IdleCatalogVars /\ IdleWriteVars /\ IdleCanvasVars /\ InitFontVars /\ IdleMoreVars

InitWriteUnhashable ==
    IdleCatalogVars /\ InitWriteUnhashableVars /\ IdleCanvasVars /\ IdleFontVars
        /\ IdleMoreVars

InitCanvasTraced ==
    IdleCatalogVars /\ IdleWriteVars /\ InitCanvasTracedVars /\ IdleFontVars /\ IdleMoreVars

InitCatalogDag ==
    InitCatalogDagVars /\ IdleWriteVars /\ IdleCanvasVars /\ IdleFontVars /\ IdleMoreVars

InitCatalogGraph ==
    InitCatalogGraphVars /\ IdleWriteVars /\ IdleCanvasVars /\ IdleFontVars /\ IdleMoreVars

InitCatalogListener ==
    InitCatalogListenerVars /\ IdleWriteVars /\ IdleCanvasVars /\ IdleFontVars /\ IdleMoreVars

InitDispatch ==
    IdleBaseVars /\ InitDispatchVars /\ IdleEmitVars /\ IdleEventVars /\ IdleStdFontVars
        /\ IdleExtraVars

InitEmit ==
    IdleBaseVars /\ IdleDispatchVars /\ InitEmitVars /\ IdleEventVars /\ IdleStdFontVars
        /\ IdleExtraVars

InitEmitSharing ==
    IdleBaseVars /\ IdleDispatchVars /\ InitEmitSharingVars /\ IdleEventVars
        /\ IdleStdFontVars /\ IdleExtraVars

InitEvent ==
    IdleBaseVars /\ IdleDispatchVars /\ IdleEmitVars /\ InitEventVars /\ IdleStdFontVars
        /\ IdleExtraVars

InitStdFontName == IdleOldVars /\ IdleExtraVars

InitHash == IdleOldVars /\ InitHashVars /\ IdleChunkVars

InitChunk == IdleOldVars /\ IdleHashVars /\ InitChunkVars

InitStdFont ==
    IdleBaseVars /\ IdleDispatchVars /\ IdleEmitVars /\ IdleEventVars /\ InitStdFontVars
        /\ IdleExtraVars

SpecCatalog == InitCatalog /\ [][NextCatalog]_vars

SpecCatalogDag == InitCatalogDag /\ [][NextCatalog]_vars

SpecCatalogListener == InitCatalogListener /\ [][NextCatalog]_vars

\* transform is sequential code: it always takes its next step
SpecCatalogGraph ==
    InitCatalogGraph /\ [][NextCatalogGraph]_vars /\ WF_vars(NextCatalogGraph)

SpecWrite == InitWrite /\ [][NextWrite]_vars

SpecWriteCalls == InitWrite /\ [][NextWriteCalls]_vars

SpecWriteUnhashable == InitWriteUnhashable /\ [][NextWriteUnhashable]_vars

SpecCanvas == InitCanvas /\ [][NextCanvas]_vars

SpecCanvasMarked == InitCanvas /\ [][NextCanvasMarked]_vars

SpecCanvasTraced == InitCanvasTraced /\ [][NextCanvas]_vars

SpecFont == InitFont /\ [][NextFont]_vars

SpecDispatch == InitDispatch /\ [][NextDispatch]_vars

SpecEmit == InitEmit /\ [][NextEmit]_vars

SpecEmitSharing == InitEmitSharing /\ [][NextEmitSharing]_vars

SpecEvent == InitEvent /\ [][NextEvent]_vars

SpecStdFontName == InitStdFontName /\ [][NextStdFontName]_vars

SpecStdFontWidth == InitStdFont /\ [][NextStdFontWidth]_vars

SpecHash == InitHash /\ [][NextHash]_vars

SpecChunk == InitChunk /\ [][NextChunk]_vars

-----------------------------------------------------------------------------
(* Properties *)

\* C1: once transform has returned, the Kids array of the root Pages node
\* holds only Page objects and its Count entry equals the length of Kids.
C1_KidsOnlyPagesAndCount ==
    pc_cat = "done" =>
        /\ \A i \in 1..Len(kids[RootNode]) : IsPage(kind, kids[RootNode][i])
        /\ count = Len(kids[RootNode])

\* A finished transform of a tree whose root has a nested Pages node and a
\* value that is no page among its kids, and which lists at least two pages.
C1_Witness ==
    /\ pc_cat = "done"
    /\ kind[RootNode] = "Pages"
    /\ \E i \in 1..Len(kids0[RootNode]) : kind[kids0[RootNode][i]] = "Pages"
    /\ \E i \in 1..Len(kids0[RootNode]) : kind[kids0[RootNode][i]] = "Other"
    /\ Len(kids[RootNode]) >= 2

\* C2: the flattened Kids array lists the leaf pages in depth-first preorder
\* of the original Pages tree (the kids of a nested Pages node before any
\* later sibling of that node).
C2_DepthFirstPreorder ==
    pc_cat = "done" => kids[RootNode] = PreorderPages(RootNode)

\* C3 (as claimed): any two structurally equal objects that get_reference
\* has given a Reference hold the same object number, also when objects
\* were changed between the calls.
C3_DedupUnderChanges ==
    \A a \in Objects : \A b \in Objects :
        (obj_ref[a] # NoRef /\ obj_ref[b] # NoRef /\ Equals(content, a, b))
            => NumberOf(a) = NumberOf(b)

\* C3 (amended): as long as no object was changed after get_reference gave
\* it a Reference, any two structurally equal objects that get_reference
\* has given a Reference hold the same object number.
C3_DedupWithoutChanges ==
    ~changed_after =>
        \A a \in Objects : \A b \in Objects :
            (obj_ref[a] # NoRef /\ obj_ref[b] # NoRef /\ Equals(content, a, b))
                => NumberOf(a) = NumberOf(b)

\* An object has adopted the Reference of an equal, registered object (it
\* holds a Reference without being in the id-indexed registry), and no
\* referenced object was changed.
C3_Witness ==
    /\ ~changed_after
    /\ \E a \in Objects : \E b \in Objects :
        /\ a # b
        /\ a \in indirect_objects_by_id /\ b \notin indirect_objects_by_id
        /\ obj_ref[b] # NoRef
        /\ Equals(content, a, b)

\* C4: if character_identifier_to_unicode(c) returned a str u, then
\* unicode_to_character_identifier(u) on the same font returns c.
C4_EncodingRoundTrip ==
    (last_call.fn = "u2c" /\ last_call.fwd.tag = "str" /\ last_call.u = last_call.fwd.val)
        => last_call.rev = IntRes(last_call.cid)

\* C5: character_identifier_to_unicode returns a str or None for every
\* character identifier and font; it never raises.
C5_ResolutionNeverRaises ==
    last_call.fn = "c2u" => last_call.fwd.tag \in {"str", "none"}

\* C6: inside a compatibility section, a known operator met with fewer
\* operands than its arity does not make read raise; the loop goes on.
C6_CompatUnderflowNonFatal ==
    (/\ InOperatorTable(last_op.tok)
     /\ last_op.compat_before
     /\ Len(last_op.stk_before) < NumberOfOperands(last_op.tok))
        => status = "running"

\* C7: when an operator's invoke raises, read goes on with the next token
\* if the canvas is inside a compatibility section; otherwise read raises,
\* and once it has raised no operator is invoked any more.
C7_InvokeFailure ==
    /\ (last_op.what = "invoke_raised" /\ last_op.compat_before) => status = "running"
    /\ (last_op.what = "invoke_raised" /\ ~last_op.compat_before) => status = "raised"
    /\ status = "raised" => ~ENABLED (\E tok \in Tokens : InvokeOperator(tok))

\* Q has just failed on an empty graphics-state stack inside a
\* compatibility section, and read is still running.
C7_Witness ==
    /\ last_op.what = "invoke_raised"
    /\ last_op.tok = "Q"
    /\ last_op.compat_before
    /\ status = "running"

\* C8: outside a compatibility section, a known operator met with fewer
\* operands than its arity makes read raise, with the operator not invoked
\* and the operand stack as it was.
C8_UnderflowOutsideCompat ==
    (/\ InOperatorTable(last_op.tok)
     /\ ~last_op.compat_before
     /\ Len(last_op.stk_before) < NumberOfOperands(last_op.tok))
        => /\ status = "raised"
           /\ last_op.what = "assert_failed"
           /\ operand_stk = last_op.stk_before

\* Tf has just been met with one operand outside a compatibility section.
C8_Witness ==
    /\ last_op.tok = "Tf"
    /\ ~last_op.compat_before
    /\ Len(last_op.stk_before) = 1
    /\ status = "raised"

\* C9: an operator name that is not in the operator table is skipped,
\* inside and outside a compatibility section: nothing is invoked or
\* raised, the operand stack is as it was, and the loop goes on.
C9_UnknownOperatorSkipped ==
    (IsOperatorName(last_op.tok) /\ ~InOperatorTable(last_op.tok))
        => /\ last_op.what = "skipped"
           /\ status = "running"
           /\ operand_stk = last_op.stk_before

\* An unknown operator has just been skipped inside a compatibility
\* section, with a stray operand left on the stack.
C9_Witness ==
    /\ last_op.tok = "bar"
    /\ last_op.what = "skipped"
    /\ last_op.compat_before
    /\ operand_stk = <<"/Foo">>
    /\ status = "running"

\* C10: reading the stream BX /Foo bar EX q Q on a new canvas raises at no
\* token, and when the stream has ended the canvas is outside the
\* compatibility section and its graphics-state stack is empty.
C10_ScenarioCompletes ==
    /\ scen >= 0 => status \in {"running", "done"}
    /\ (scen = Len(Scenario) /\ status = "done")
           => (~in_compatibility_section /\ graphics_state_stack = <<>>)

\* The whole scenario stream has been read and read has returned.
C10_Witness ==
    /\ scen = Len(Scenario)
    /\ status = "done"

\* C11: for a Type1Font with a ToUnicode entry, character_identifier_to_unicode
\* returns exactly the CMap table's entry for the character identifier, and
\* None when the table has none, whatever the font's Encoding is.
C11_ToUnicodePriority ==
    (last_call.fn = "c2u" /\ font.cls = "Type1" /\ font.to_unicode)
        => last_call.fwd = IF DictHas(font.cmap, last_call.cid)
                           THEN StrRes(DictGet(font.cmap, last_call.cid))
                           ELSE NoneRes

\* A font with ToUnicode and WinAnsiEncoding was asked for 53, which its CMap
\* does not hold and cp1252 decodes to "5": the answer was None.
C11_Witness ==
    /\ last_call.fn = "c2u"
    /\ font.to_unicode
    /\ font.encoding = "WinAnsiEncoding"
    /\ font.cmap # <<>>
    /\ last_call.cid = 53
    /\ last_call.fwd = NoneRes

\* The index of the first handler of hs that accepts o (0: none)
FirstAccepting(hs, o) ==
    IF \E i \in 1..Len(hs) : o \in can[hs[i]]
    THEN CHOOSE i \in 1..Len(hs) :
            /\ o \in can[hs[i]]
            /\ \A j \in 1..(i - 1) : o \notin can[hs[j]]
    ELSE 0

\* C12: transform consults the children in registration order up to the
\* first one whose can_be_transformed accepts the object, invokes that child
\* only and returns its result; if none accepts, all are consulted, none is
\* invoked and None is returned.
C12_FirstMatchDispatch ==
    last_transform.called =>
        LET hs == last_transform.hs
            o == last_transform.obj
            k == FirstAccepting(hs, o)
        IN  IF k = 0
            THEN /\ last_transform.consulted = hs
                 /\ last_transform.invoked = <<>>
                 /\ last_transform.return_value = NoReturn
            ELSE /\ last_transform.consulted = SubSeq(hs, 1, k)
                 /\ last_transform.invoked = <<hs[k]>>
                 /\ last_transform.return_value = ChildResult(hs[k], o)

\* transform ran over three children of which the first refuses the object
\* and the two later ones both accept it.
C12_Witness ==
    /\ last_transform.called
    /\ Len(last_transform.hs) = 3
    /\ last_transform.obj \notin can[last_transform.hs[1]]
    /\ last_transform.obj \in can[last_transform.hs[2]]
    /\ last_transform.obj \in can[last_transform.hs[3]]
    /\ last_transform.hs[2] # last_transform.hs[3]
    /\ last_transform.invoked = <<last_transform.hs[2]>>

\* The entries of all buckets of the hash-indexed registry, in one sequence
RECURSIVE BucketEntries(_, _)
BucketEntries(byhash, hs) ==
    IF hs = {} THEN <<>>
    ELSE LET h == CHOOSE x \in hs : TRUE
         IN  byhash[h] \o BucketEntries(byhash, hs \ {h})

\* C13: the i-th Reference minted in a context has object_number i, one more
\* than the number of objects registered before it; every object that got a
\* minted Reference is in both registries, once; and, as long as no
\* referenced object was changed, every object equal to the first
\* registered one holds object_number 1.
C13_MintedNumbers ==
    LET entries == BucketEntries(indirect_objects_by_hash, DOMAIN indirect_objects_by_hash)
    IN  /\ \A i \in 1..Len(refs) : refs[i].object_number = i
        /\ Len(entries) = Len(refs)
        /\ {entries[i] : i \in 1..Len(entries)} = indirect_objects_by_id
        /\ Cardinality(indirect_objects_by_id) = Len(refs)
        /\ \A o \in indirect_objects_by_id : refs[obj_ref[o]].object_number = obj_ref[o]
        /\ ~changed_after =>
              \A a \in indirect_objects_by_id : \A b \in Objects :
                  (obj_ref[a] = 1 /\ obj_ref[b] # NoRef /\ Equals(content, a, b))
                      => NumberOf(b) = 1

\* Two References were minted, the second for an object whose hash collides
\* with the first one's, and a third object equal to the first registered
\* one has adopted object_number 1.
C13_Witness ==
    /\ ~changed_after
    /\ Len(refs) = 2
    /\ \E h \in DOMAIN indirect_objects_by_hash : Len(indirect_objects_by_hash[h]) = 2
    /\ \E a \in indirect_objects_by_id : \E b \in Objects \ indirect_objects_by_id :
          /\ obj_ref[a] = 1
          /\ Equals(content, a, b)
          /\ NumberOf(b) = 1

\* The decimal numerals of the numbers the input References hold
Numeral(n) ==
    CASE n = 0 -> <<"0">>
      [] n = 1 -> <<"1">>
      [] n = 9 -> <<"9">>
      [] n = 10 -> <<"1", "0">>
      [] n = 12 -> <<"1", "2">>
      [] n = 105 -> <<"1", "0", "5">>

\* C14: a _start_object call that returns has stored in the Reference's
\* byte_offset the length the destination had before the call and has
\* appended "<object_number> <generation_number> obj\n", the generation
\* being 0 when unset; an _end_object call has appended "endobj\n\n".
C14_ObjectDelimiters ==
    /\ (last_emit.fn = "start" /\ last_emit.outcome = "returned") =>
          LET ref == last_emit.ref_before
              gen == IF ref.generation_number = NoneNumber
                     THEN 0 ELSE ref.generation_number
          IN  /\ reference[ref_cell[last_emit.obj]].byte_offset = Len(last_emit.before)
              /\ destination =
                     last_emit.before \o Numeral(ref.object_number) \o <<" ">>
                        \o Numeral(gen) \o <<" ", "o", "b", "j", "\n">>
    /\ last_emit.fn = "end" =>
          /\ last_emit.outcome = "returned"
          /\ destination =
                 last_emit.before \o <<"e", "n", "d", "o", "b", "j", "\n", "\n">>

\* _start_object has returned for a Reference with object number 105 and no
\* generation number, the destination already holding bytes.
C14_Witness ==
    /\ last_emit.fn = "start"
    /\ last_emit.outcome = "returned"
    /\ last_emit.before # <<>>
    /\ last_emit.ref_before.object_number = 105
    /\ last_emit.ref_before.generation_number = NoneNumber

\* C15: _start_object on an object without a Reference fails, the
\* destination holding exactly the bytes it held before and the object
\* still without a Reference.
C15_MissingReference ==
    (last_emit.fn = "start" /\ ~last_emit.ref_before.present) =>
        /\ last_emit.outcome = "raised"
        /\ destination = last_emit.before
        /\ reference[ref_cell[last_emit.obj]] = NoReference

\* _start_object has failed on an object without a Reference, the
\* destination already holding bytes.
C15_Witness ==
    /\ last_emit.fn = "start"
    /\ ~last_emit.ref_before.present
    /\ last_emit.outcome = "raised"
    /\ last_emit.before # <<>>

\* y rounded down to a multiple of 5
RoundedDown(y) == y - (y % 5)

\* C16: cmp rounds each baseline y down to a multiple of 5, negative y
\* included; with equal rounded values the result has the sign of
\* x0 - x1, otherwise the event with the higher rounded y comes first
\* (a negative result for obj0).
C16_RoundDownThenX ==
    last_cmp.called =>
        LET r0 == RoundedDown(last_cmp.obj0.y)
            r1 == RoundedDown(last_cmp.obj1.y)
        IN  IF r0 = r1
            THEN last_cmp.result = last_cmp.obj0.x - last_cmp.obj1.x
            ELSE (last_cmp.result < 0) <=> (r0 > r1)

\* C17: _canonical_name returns the first entry of the 14-name list whose
\* lowercased, letters-only form equals that of the input, and None when
\* there is none; "helveticabold", "Helvetica-Bold" and "HELVETICA BOLD"
\* give "Helvetica-Bold", "Arial" gives None; is_standard_14_font_name is
\* true exactly when the result is not None.
C17_CanonicalName ==
    last_name.called =>
        LET x == last_name.font_name
            r == last_name.result
            matches == {i \in 1..Len(STANDARD_14_FONT_NAMES) :
                          ToLowerAndAlpha(STANDARD_14_FONT_NAMES[i]) = ToLowerAndAlpha(x)}
        IN  /\ r.found <=> matches # {}
            /\ r.found =>
                  \E i \in matches :
                      /\ r.name = STANDARD_14_FONT_NAMES[i]
                      /\ \A j \in matches : i <= j
            /\ last_name.is_standard <=> r.found
            /\ x \in {<<"h", "e", "l", "v", "e", "t", "i", "c", "a", "b", "o", "l", "d">>,
                      <<"H", "e", "l", "v", "e", "t", "i", "c", "a", "-", "B", "o", "l", "d">>,
                      <<"H", "E", "L", "V", "E", "T", "I", "C", "A", " ", "B", "O", "L", "D">>}
                  => r = [found |-> TRUE,
                          name |-> <<"H", "e", "l", "v", "e", "t", "i", "c", "a", "-", "B", "o", "l", "d">>]
            /\ x = <<"A", "r", "i", "a", "l">> => r = NoName

\* _canonical_name was called with "HELVETICA BOLD" and gave a name.
C17_Witness ==
    /\ last_name.called
    /\ last_name.font_name = <<"H", "E", "L", "V", "E", "T", "I", "C", "A", " ", "B", "O", "L", "D">>
    /\ last_name.result.found
    /\ last_name.is_standard

\* C20: get_width returns the width of the first AFM glyph whose character
\* code is the character identifier, also when several glyphs have that
\* code, and 0 when none has.
C20_FirstMatchingWidth ==
    last_width.called =>
        LET hits == {i \in 1..Len(afm_chars) : afm_chars[i].code = last_width.cid}
        IN  IF hits = {} THEN last_width.result = 0
            ELSE \E i \in hits :
                    /\ \A j \in hits : i <= j
                    /\ last_width.result = afm_chars[i].width

\* C18: for a Pages structure of any shape, shared nodes and cycles
\* included, the flattening of transform terminates.
C18_FlatteningTerminates == <>(pc_cat = "done")

\* C19: when transform has returned, every listener of event_listeners is
\* attached to the dictionary it returns, whether the Dictionary
\* transformer returned its argument or another dictionary.
C19_ListenersOnReturned ==
    pc_cat = "done" =>
        \A i \in 1..Len(event_listeners) :
            \E j \in 1..Len(listeners[transformed_root_dictionary]) :
                listeners[transformed_root_dictionary][j] = event_listeners[i]

\* The entries of a Dictionary, whatever the order they were inserted in.
Entries(v) == {v.items[i] : i \in 1..Len(v.items)}

\* Two values are structurally equal when they are of one type and hold
\* the same: leaves the same number, Lists the same elements in the same
\* order, Dictionaries the same value under each key.  Which objects hold
\* them, and the order the entries of a Dictionary were inserted in, do
\* not count.
StructurallyEqual(v, w) ==
    /\ v.type = w.type
    /\ v.num = w.num
    /\ IF v.type = "Dictionary"
       THEN Len(v.items) = Len(w.items) /\ Entries(v) = Entries(w)
       ELSE v.items = w.items

C22_OperandsPopped ==
    last_op.what \in {"invoked", "invoke_raised"} =>
        /\ Len(last_op.operands) = NumberOfOperands(last_op.tok)
        /\ last_op.stk_before = operand_stk \o last_op.operands

C22_Witness ==
    /\ last_op.what = "invoked"
    /\ last_op.tok = "Tf"
    /\ last_op.operands = <<"/Foo", "1">>
    /\ operand_stk = <<"1">>

\* The operator names of a stream that are in the operator table, in order.
RECURSIVE KnownOf(_)
KnownOf(stream) ==
    IF stream = <<>> THEN <<>>
    ELSE (IF Head(stream) \in KnownOperators THEN <<Head(stream)>> ELSE <<>>)
             \o KnownOf(Tail(stream))

\* C23: read invokes the known operators of the stream one at a time, in
\* the order of their names in the stream and each occurrence once, before
\* it reads the next object; the loop ends at the end of the stream and
\* read returns.
C23_InvokedInStreamOrder ==
    trace.on =>
        /\ status \in {"running", "done"} => trace.invoked = KnownOf(trace.stream)
        /\ status = "done" => last_op.what = "eos"

C23_Witness ==
    /\ trace.on
    /\ status = "done"
    /\ trace.stream = <<"q", "bar", "Q">>
    /\ trace.invoked = <<"q", "Q">>

\* The positions of a bucket whose object is structurally equal to o.
EqualIn(bucket, o) == {i \in 1..Len(bucket) : content[bucket[i]] = content[o]}

\* The first object of a bucket that is structurally equal to o.
FirstOf(bucket, o) ==
    bucket[CHOOSE i \in EqualIn(bucket, o) : \A j \in EqualIn(bucket, o) : i <= j]

\* The object_number a get_reference(o) call made now returns.
ResultNumber(o) ==
    LET bucket == indirect_objects_by_hash[HashOf(content[o])]
    IN  IF o \in indirect_objects_by_id THEN NumberOf(o)
        ELSE IF EqualIn(bucket, o) # {} THEN NumberOf(FirstOf(bucket, o))
        ELSE NewObjNumber(ExistingNumbersOf(indirect_objects_by_hash))

\* C24: a get_reference call on an object whose identity is registered
\* returns the object's own Reference and changes neither registry; a call
\* that finds a structurally equal object in the hash bucket gives the
\* caller's object that entry's Reference and adds it to neither registry;
\* and a second call on the same object returns the object_number the
\* first call returned.
C24_NonMintingFrame ==
    [][\A o \in DOMAIN content :
          LET bucket == indirect_objects_by_hash[HashOf(content[o])]
          IN  (content' = content /\ GetReference(o)) =>
                /\ o \in indirect_objects_by_id =>
                       UNCHANGED <<indirect_objects_by_id, indirect_objects_by_hash,
                                   obj_ref, refs>>
                /\ (o \notin indirect_objects_by_id /\ EqualIn(bucket, o) # {}) =>
                       /\ UNCHANGED <<indirect_objects_by_id, indirect_objects_by_hash,
                                      refs>>
                       /\ obj_ref'[o] = obj_ref[FirstOf(bucket, o)]
                /\ NumberOf(o)' = ResultNumber(o)'
      ]_vars

\* An object holds a Reference adopted from a registered equal object, and
\* a second object of another value is registered as well.
C24_Witness ==
    /\ get_outcome = Returned
    /\ Cardinality(indirect_objects_by_id) = 2
    /\ \E o \in DOMAIN content \ indirect_objects_by_id :
          \E p \in indirect_objects_by_id :
              obj_ref[o] # NoRef /\ obj_ref[o] = obj_ref[p] /\ content[o] = content[p]

\* C30: get_reference on an object that is not in the id-indexed registry
\* and cannot be hashed fails with the TypeError of _hash; both registries
\* are unchanged and no Reference is set on the object.
C30_UnhashableFails ==
    [][\A o \in DOMAIN content :
          (GetReference(o) /\ o \notin indirect_objects_by_id
              /\ content[o] = UnhashableValue) =>
                /\ get_outcome' = RaisedTypeError(o)
                /\ UNCHANGED <<indirect_objects_by_id, indirect_objects_by_hash,
                               obj_ref, refs>>
      ]_vars

\* A call has failed on an object without a Reference while another object
\* is registered.
C30_Witness ==
    /\ get_outcome.outcome = "raised"
    /\ content[get_outcome.obj] = UnhashableValue
    /\ obj_ref[get_outcome.obj] = NoRef
    /\ indirect_objects_by_id # {}

\* The numeric entry that starts the run of the name at position j of a
\* Differences array (0: no numeric entry comes before it).
RunStart(diffs, j) ==
    LET nums == {i \in 1..(j - 1) : diffs[i].is_num}
    IN  IF nums = {} THEN 0 ELSE CHOOSE i \in nums : \A k \in nums : k <= i

\* The positions of the names that a run assigns to cid.
AssignedTo(diffs, cid) ==
    {j \in 1..Len(diffs) :
        /\ ~diffs[j].is_num
        /\ RunStart(diffs, j) > 0
        /\ diffs[RunStart(diffs, j)].code + (j - RunStart(diffs, j) - 1) = cid}

\* What the runs of a Differences array give for cid: the glyph list value
\* of the last name assigned to it, None when no run assigns it.
RunValue(diffs, cid) ==
    IF AssignedTo(diffs, cid) = {} THEN NoneRes
    ELSE LET last == CHOOSE j \in AssignedTo(diffs, cid) :
                         \A k \in AssignedTo(diffs, cid) : k <= j
         IN  StrRes(ToUnicode(diffs[last].name))

\* C25: a Type1Font without ToUnicode whose Encoding is a dictionary with a
\* recognised BaseEncoding resolves a cid of 0..256 from the runs of its
\* Differences array: the i-th name after a numeric entry n gives cid n + i
\* its glyph list value, the last assignment to a cid wins, and a cid no
\* run assigns resolves to None.
C25_DifferencesTable ==
    (/\ last_call.fn = "c2u"
     /\ font.cls = "Type1"
     /\ ~font.to_unicode
     /\ font.encoding = "dict"
     /\ font.base_encoding \in PredefinedEncodings
     /\ ~CidOutOfRange(last_call.cid))
        => last_call.fwd = RunValue(font.differences, last_call.cid)

\* C26: over any sequence of lookups on one font, the CMap bytes or the
\* Differences array are parsed at most once, an empty parsed table
\* included.
C26_ParsedAtMostOnce == font.parses <= 1

\* The font of the last call, with Encoding = StandardEncoding.
WithStandardEncoding == [font EXCEPT !.encoding = "StandardEncoding"]

\* C27: a Type1Font with neither ToUnicode nor Encoding resolves a cid, and
\* a str in the reverse direction, as the same font with
\* Encoding = StandardEncoding does.
C27_ImplicitStandardEncoding ==
    (/\ font.cls = "Type1"
     /\ ~font.to_unicode
     /\ last_call.encoding_before = "absent") =>
        /\ last_call.fn = "c2u" =>
               last_call.fwd =
                   CharacterIdentifierToUnicode(WithStandardEncoding, last_call.cid).res
        /\ last_call.fn = "u2c" =>
               last_call.rev =
                   UnicodeToCharacterIdentifier(WithStandardEncoding, last_call.u).res

\* cid 65 was resolved to "A" on a font that had no Encoding entry.
C27_Witness ==
    /\ font.cls = "Type1"
    /\ ~font.to_unicode
    /\ last_call.fn = "c2u"
    /\ last_call.encoding_before = "absent"
    /\ last_call.cid = 65
    /\ last_call.fwd = StrRes(<<65>>)

\* The letters that reach below the baseline, in either case.
DescentLettersEitherCase ==
    DescentLetters \cup {"Y", "P", "Q", "F", "G", "J"}

HasDescentLetter(text) ==
    \E i \in 1..Len(text) : text[i] \in DescentLettersEitherCase

\* A transform that neither rotates nor mirrors.
Unrotated(m) == m.b = 0 /\ m.c = 0 /\ m.a > 0 /\ m.d > 0

\* a <= b of Decimal numbers
AtMost(a, b) == ~Less(b, a)

\* Rectangle outer covers rectangle inner, the edges being the numbers
\* x + width and y + height.
Contains(outer, inner) ==
    /\ AtMost(outer.x, inner.x)
    /\ AtMost(outer.y, inner.y)
    /\ AtMost(ExactSum(inner.x, inner.width), ExactSum(outer.x, outer.width))
    /\ AtMost(ExactSum(inner.y, inner.height), ExactSum(outer.y, outer.height))

\* The corner of the event of this graphics state and text-space span
\* on the line that lies metric thousandths of Decimal(0.001) above the
\* text rise.
Corner(gs, x, metric) ==
    Cross(Mul(gs.text_matrix, gs.ctm), Thousandths(x),
          Sum(Thousandths(gs.text_rise), TimesDecimal001(metric)))

\* The corner on the line of the text rise itself.
CornerOnRise(gs, x) ==
    Cross(Mul(gs.text_matrix, gs.ctm), Thousandths(x), Thousandths(gs.text_rise))

\* The choice of the full bounding box of the event constructed: the
\* baseline box unless the text holds a descent letter in either case,
\* and then the span from the descent line to the ascent line.
BoundingBoxChosen ==
    chunk_event # NoEvent =>
        LET gs == chunk_gs
            width == WidthInTextSpace(chunk_line, Len(chunk_line))
            full == chunk_event.bounding_box
        IN  /\ chunk_event.text = TextOfLine(chunk_line)
            /\ ~HasDescentLetter(chunk_event.text) =>
                   full = chunk_event.baseline_bounding_box
            /\ HasDescentLetter(chunk_event.text) =>
                   full = SpanOf(Corner(gs, 0, gs.descent), Corner(gs, width, gs.ascent))

\* The event constructed has a descent letter, a non-positive descent, an
\* ascent among ascents and a transform that neither rotates nor mirrors.
Upright(ascents) ==
    /\ chunk_event # NoEvent
    /\ HasDescentLetter(chunk_event.text)
    /\ chunk_gs.descent <= 0
    /\ chunk_gs.ascent \in ascents
    /\ Unrotated(Mul(chunk_gs.text_matrix, chunk_gs.ctm))

\* The full box of such an event starts no higher than the baseline box,
\* and lower when the descent is negative.
BoundingBoxReachesBelow(ascents) ==
    Upright(ascents) =>
        /\ AtMost(chunk_event.bounding_box.y, chunk_event.baseline_bounding_box.y)
        /\ chunk_gs.descent < 0 =>
               Less(chunk_event.bounding_box.y, chunk_event.baseline_bounding_box.y)

\* The full box of such an event covers the baseline box.
BoundingBoxContains(ascents) ==
    Upright(ascents) =>
        Contains(chunk_event.bounding_box, chunk_event.baseline_bounding_box)

NonNegativeAscents == {a \in {g.ascent : g \in GraphicsStates} : a >= 0}

\* C28: the full bounding box of a ChunkOfTextRenderEvent is its baseline
\* bounding box unless the text holds, in either case, one of the letters
\* y, p, q, f, g, j; when it does, the box spans from the descent line to
\* the ascent line, and for a non-positive descent and a transform that
\* neither rotates nor mirrors it contains the baseline box and reaches
\* below it.
C28_BoundingBox ==
    /\ BoundingBoxChosen
    /\ BoundingBoxReachesBelow({g.ascent : g \in GraphicsStates})
    /\ BoundingBoxContains({g.ascent : g \in GraphicsStates})

\* The part of C28 on the downward reach, for the fonts of a non-negative
\* ascent.
ReachesBelowForNonNegativeAscent == BoundingBoxReachesBelow(NonNegativeAscents)

\* The part of C28 on the containment, for the fonts of a non-negative
\* ascent.
ContainsForNonNegativeAscent == BoundingBoxContains(NonNegativeAscents)

\* The upper edges of the two boxes of an event of non-negative ascent
\* lie less than a unit of the 27th decimal place apart.
UpperEdgesNear ==
    Upright(NonNegativeAscents) =>
        LET full == chunk_event.bounding_box
            baseline == chunk_event.baseline_bounding_box
            gap == ExactSum(ExactSum(baseline.y, baseline.height),
                            Negated(ExactSum(full.y, full.height)))
            unit == Decimal(FALSE, <<10>>, -7)
        IN  Less(Absolute(gap), unit)

\* What split_on_glyphs returned is one event per glyph of the line of the
\* parent, in order, each at the sum of the widths before it.
SplitAsClaimed ==
    LET whole == chunk_event
        line == whole.glyph_line
        gs == whole.graphics_state
        m == Mul(gs.text_matrix, gs.ctm)
    IN  /\ Len(chunk_split) = Len(line)
        /\ \A i \in 1..Len(line) :
               LET e == chunk_split[i]
                   x == WidthInTextSpace(line, i - 1)
                   top == Corner(gs, x + line[i].width, gs.ascent)
               IN  /\ e.text = <<line[i].text>>
                   /\ e.glyph_line = <<line[i]>>
                   /\ e.baseline_bounding_box = FromTo(CornerOnRise(gs, x), top)
                   /\ \/ e.bounding_box = e.baseline_bounding_box
                      \/ e.bounding_box = SpanOf(Corner(gs, x, gs.descent), top)
                   /\ e.font = whole.font
                   /\ e.font_size = whole.font_size
                   /\ e.font_color = whole.font_color
                   /\ e.space_character_width_estimate =
                          whole.space_character_width_estimate

\* C29: split_on_glyphs returns one event per glyph of the glyph line of
\* the event, in glyph order; the rectangles of the i-th start at the
\* text-space x that is the sum of the widths of the glyphs before it and
\* span the width of that glyph; the event carries the font, font size,
\* font colour and space-character width estimate of the parent; the
\* parent is left as it was.
C29_SplitOnGlyphs ==
    /\ [](chunk_split # NoSplit => SplitAsClaimed)
    /\ [][chunk_split' # chunk_split => chunk_event' = chunk_event]_vars

\* The line "a", "y" was split under the identity transform: the second
\* event starts at 500 and is 400 wide.
C29_Witness ==
    /\ chunk_split # NoSplit
    /\ Len(chunk_split) = 2
    /\ chunk_split[1].text = <<"a">>
    /\ chunk_split[2].text = <<"y">>
    /\ chunk_split[2].baseline_bounding_box.x = Thousandths(500)
    /\ chunk_split[2].baseline_bounding_box.width = Thousandths(400)
    /\ chunk_split[2].bounding_box.x = Thousandths(500)
    /\ chunk_split[2].font = chunk_event.font


\* The entries of a font dictionary: its keys and their values, without
\* the lookup tables the object caches beside them.
EntriesOf(f) ==
    [to_unicode |-> f.to_unicode, cmap |-> f.cmap, encoding |-> f.encoding,
     base_encoding |-> f.base_encoding, differences |-> f.differences,
     has_first_last |-> f.has_first_last, has_base_font |-> f.has_base_font]

\* C31: the two lookups are read-only with respect to the font dictionary:
\* no lookup changes the set of keys or the values of the font dictionary,
\* so that after any sequence of lookups they are what they were at load
\* (a font loaded without an Encoding entry still has none).
C31_LookupsReadOnly == [][EntriesOf(font') = EntriesOf(font)]_vars


\* The places (bucket, position) at which the hash-indexed registry holds o.
PlacesOf(byhash, o) ==
    UNION {{<<h, i>> : i \in {j \in 1..Len(byhash[h]) : byhash[h][j] = o}} :
              h \in DOMAIN byhash}

\* The objects held by the hash-indexed registry.
HeldByHash(byhash) ==
    UNION {{byhash[h][i] : i \in 1..Len(byhash[h])} : h \in DOMAIN byhash}

\* C32: after any sequence of get_reference calls on one context, the
\* id-indexed and the hash-indexed registry hold the same set of objects,
\* each of them is in exactly one hash bucket and once in it, and every
\* registered object carries a Reference with a positive object_number.
C32_RegistriesConsistent ==
    /\ HeldByHash(indirect_objects_by_hash) = indirect_objects_by_id
    /\ \A o \in indirect_objects_by_id :
          /\ Cardinality(PlacesOf(indirect_objects_by_hash, o)) = 1
          /\ obj_ref[o] # NoRef
          /\ NumberOf(o) >= 1
    /\ \A h \in DOMAIN indirect_objects_by_hash :
          Len(indirect_objects_by_hash[h]) =
              Cardinality({indirect_objects_by_hash[h][i] :
                              i \in 1..Len(indirect_objects_by_hash[h])})

\* Two objects of one hash bucket are registered, and the value of one of
\* them was changed after that.
C32_Witness ==
    /\ changed_after
    /\ \E h \in DOMAIN indirect_objects_by_hash :
          /\ Len(indirect_objects_by_hash[h]) = 2
          /\ \E i \in 1..2 :
                HashOf(content[indirect_objects_by_hash[h][i]]) # h
    /\ Cardinality(indirect_objects_by_id) = 3

\* C33: after any sequence of get_reference calls on a fresh context, on
\* objects that carried no Reference before, the object numbers of the
\* registered objects are pairwise distinct and are exactly 1..n, n being
\* the number of registered objects; and two objects that are not
\* structurally equal never hold the same object_number.
C33_NumbersUniqueGapFree ==
    /\ \A o, p \in indirect_objects_by_id : o # p => NumberOf(o) # NumberOf(p)
    /\ {NumberOf(o) : o \in indirect_objects_by_id} = 1..Cardinality(indirect_objects_by_id)
    /\ \A o, p \in DOMAIN content :
          (obj_ref[o] # NoRef /\ obj_ref[p] # NoRef /\ content[o] # content[p]) =>
              NumberOf(o) # NumberOf(p)

\* Two unequal objects of one hash value are registered with the numbers 1
\* and 2, and a third object holds the Reference of one of them.
C33_Witness ==
    /\ Cardinality(indirect_objects_by_id) = 2
    /\ \E o, p \in indirect_objects_by_id :
          /\ content[o] # content[p]
          /\ HashOf(content[o]) = HashOf(content[p])
          /\ NumberOf(o) = 1
          /\ NumberOf(p) = 2
    /\ \E q \in DOMAIN content \ indirect_objects_by_id : NumberOf(q) = 2


\* The _start_object calls of the log that returned, by their position.
ReturnedStarts == {i \in DOMAIN emit_log.starts : emit_log.starts[i].outcome = "returned"}

\* The offsets stored by the calls that wrote their header grow strictly.
StartOffsetsGrow ==
    \A i, j \in ReturnedStarts :
        i < j => emit_log.starts[i].byte_offset < emit_log.starts[j].byte_offset

\* The offset stored by a call, whether it then wrote its header or
\* failed, is strictly greater than the one stored by every call before.
EveryStartOffsetGrows ==
    \A i, j \in DOMAIN emit_log.starts :
        i < j => emit_log.starts[i].byte_offset < emit_log.starts[j].byte_offset

\* No call stores an offset smaller than one stored before.
StartOffsetsNeverFall ==
    \A i, j \in DOMAIN emit_log.starts :
        i < j => emit_log.starts[i].byte_offset <= emit_log.starts[j].byte_offset

\* A Reference object holds the offset stored by the last call that wrote a
\* header for one of the objects holding it.
LastHeaderOffset ==
    \A c \in DOMAIN reference :
        LET mine == {i \in ReturnedStarts : ref_cell[emit_log.starts[i].obj] = c}
        IN  mine # {} =>
                reference[c].byte_offset =
                    emit_log.starts[CHOOSE i \in mine : \A j \in mine : j <= i].byte_offset

\* C34 (as amended): over any sequence of _start_object and _end_object
\* calls on one destination written at its end, the byte_offset stored by
\* a _start_object call that writes its header is strictly greater than
\* the one stored by every such call before it, and no call stores an
\* offset smaller than one stored before; _end_object changes no
\* Reference; and a Reference held by several objects holds the offset of
\* the last header written for it.
C34_OffsetsGrow ==
    [][emit_log.on =>
          /\ StartOffsetsGrow'
          /\ StartOffsetsNeverFall'
          /\ LastHeaderOffset'
          /\ (emits' # emits /\ last_emit'.fn = "end") => reference' = reference
      ]_vars

\* C34 as stated: the byte_offset stored by each _start_object call is
\* strictly greater than the one stored by every earlier call;
\* _end_object changes no Reference; and a Reference held by several
\* objects holds the offset of the last header written for it.
C34_EveryOffsetGrows ==
    [][emit_log.on =>
          /\ EveryStartOffsetGrows'
          /\ LastHeaderOffset'
          /\ (emits' # emits /\ last_emit'.fn = "end") => reference' = reference
      ]_vars

\* Two objects hold one Reference; a header was written for the first, it
\* was closed, and a header was written for the second: the Reference
\* holds the offset of the second header.
C34_Witness ==
    /\ emit_log.on
    /\ ref_cell = <<1, 1>>
    /\ Len(emit_log.starts) = 2
    /\ emit_log.starts[1] = [obj |-> 1, byte_offset |-> 0, outcome |-> "returned"]
    /\ emit_log.starts[2].obj = 2
    /\ emit_log.starts[2].outcome = "returned"
    /\ emits = 3
    /\ reference[1].byte_offset = emit_log.starts[2].byte_offset
    /\ reference[1].byte_offset > 0


\* The attributes of the canvas that the operators of a stream write.
CanvasAttributes ==
    <<in_compatibility_section, graphics_state_stack, marked_content_stack>>

\* C35: a read call starts with an empty operand stack and leaves
\* in_compatibility_section, the graphics-state stack and the
\* marked-content stack as the reads before it left them; at the end of
\* the stream read returns without a look at them, also inside an open
\* compatibility section, so that the next read starts in compatibility
\* mode.
C35_CarriedOverBetweenReads ==
    [][/\ (status # "running" /\ status' = "running") =>
              /\ operand_stk' = <<>>
              /\ CanvasAttributes' = CanvasAttributes
       /\ (status = "running" /\ last_op'.what = "eos") =>
              /\ status' = "done"
              /\ CanvasAttributes' = CanvasAttributes
      ]_vars

\* The first read ended inside a compatibility section, a saved graphics
\* state and an open marked-content sequence, with an operand left on its
\* stack; the second read has started: its operand stack is empty and the
\* canvas is as the first read left it.
C35_Witness ==
    /\ reads = 2
    /\ status = "running"
    /\ last_op = NoOp
    /\ pos = 5
    /\ operand_stk = <<>>
    /\ in_compatibility_section
    /\ Len(graphics_state_stack) = 1
    /\ marked_content_stack = <<"/Foo">>


\* The sign of an integer.
Sign(n) == IF n > 0 THEN 1 ELSE IF n < 0 THEN -1 ELSE 0

\* C36: cmp is a consistent ordering: for the events a, b of the call made
\* and every event c, cmp(a, a) = 0, the sign of cmp(a, b) is the opposite
\* of the sign of cmp(b, a), cmp(a, b) <= 0 and cmp(b, c) <= 0 imply
\* cmp(a, c) <= 0, and cmp(a, b) = 0 exactly when a and b have the same
\* rounded baseline y and the same baseline x.
C36_ConsistentOrdering ==
    last_cmp.called =>
        LET a == last_cmp.obj0
            b == last_cmp.obj1
            ab == last_cmp.result
        IN  /\ a = b => ab = 0
            /\ Sign(ab) = 0 - Sign(Cmp(b, a))
            /\ \A c \in Baselines :
                  (ab <= 0 /\ Cmp(b, c) <= 0) => Cmp(a, c) <= 0
            /\ ab = 0 <=> (a.y - DecimalMod(a.y, 5) = b.y - DecimalMod(b.y, 5)
                             /\ a.x = b.x)

\* cmp was called on two different events of one line at one x, and gave 0.
C36_Witness ==
    /\ last_cmp.called
    /\ last_cmp.obj0 = [x |-> 10, y |-> 0]
    /\ last_cmp.obj1 = [x |-> 10, y |-> 2]
    /\ last_cmp.result = 0


\* The number of paths from node n to the page p that lead through Kids
\* arrays of Pages nodes, in the structure as it was before transform.
RECURSIVE PathsToPage(_, _)
RECURSIVE PathsFromKids(_, _)
PathsToPage(n, p) ==
    (IF n = p /\ IsPage(kind, n) THEN 1 ELSE 0)
        + (IF IsPagesWithKids(kind, n) THEN PathsFromKids(kids0[n], p) ELSE 0)
PathsFromKids(ks, p) ==
    IF ks = <<>> THEN 0 ELSE PathsToPage(Head(ks), p) + PathsFromKids(Tail(ks), p)

\* How often node p is in the sequence s.
OccurrencesIn(s, p) == Cardinality({i \in 1..Len(s) : s[i] = p})

\* C37: the flattened Kids holds exactly the Page objects that can be
\* reached from the root Pages node through Kids arrays of Pages
\* dictionaries, each once per path that leads to it (once in a tree);
\* Kids and Count of the root are the only entries replaced, the other
\* Pages nodes and the pages keep their Kids.
C37_PagesKept ==
    pc_cat = "done" =>
        /\ \A p \in DOMAIN kind :
              OccurrencesIn(kids[RootNode], p) = PathsToPage(RootNode, p)
        /\ \A n \in DOMAIN kids : n # RootNode => kids[n] = kids0[n]
        /\ count = Len(kids[RootNode])

\* The root lists a nested Pages node and a page that is also the kid of
\* that node: the flattened Kids holds the page twice, and the nested node
\* keeps its Kids.
C37_Witness ==
    /\ pc_cat = "done"
    /\ kind = <<"Pages", "Pages", "Page">>
    /\ kids0 = <<<<2, 3>>, <<3>>, <<>>>>
    /\ kids[RootNode] = <<3, 3>>
    /\ kids[2] = <<3>>
    /\ count = 2


\* Rectangle r has no negative extent and starts at the component-wise
\* minimum of the points p0 and p1.
Normalised(r, p0, p1) ==
    /\ ~r.width.neg
    /\ ~r.height.neg
    /\ r.x = Minimum(p0[1], p1[1])
    /\ r.y = Minimum(p0[2], p1[2])

\* The rectangles of event e, made for the text-space span from x to
\* x + w, are normalised; lower is the line its bounding box starts from.
RectanglesNormalised(e, x, w, lower) ==
    LET gs == e.graphics_state
        top == Corner(gs, x + w, gs.ascent)
    IN  /\ Normalised(e.baseline_bounding_box, CornerOnRise(gs, x), top)
        /\ Normalised(e.bounding_box, lower, top)

\* The lower corner of the bounding box of an event with this text that
\* starts at text-space x.
LowerLine(gs, text, x) ==
    IF HasDescentLetter(text) THEN Corner(gs, x, gs.descent) ELSE CornerOnRise(gs, x)

\* C38: every rectangle of a text event has a non-negative width and
\* height and its origin at the component-wise minimum of the two
\* transformed corner points, for any text matrix and CTM: the baseline
\* and bounding boxes the constructor builds, and those of every event
\* that split_on_glyphs returns.
C38_RectanglesNormalised ==
    /\ chunk_event # NoEvent =>
          RectanglesNormalised(chunk_event, 0,
                               WidthInTextSpace(chunk_line, Len(chunk_line)),
                               LowerLine(chunk_gs, chunk_event.text, 0))
    /\ chunk_split # NoSplit =>
          \A i \in 1..Len(chunk_split) :
              RectanglesNormalised(chunk_split[i],
                                   WidthInTextSpace(chunk_line, i - 1),
                                   chunk_line[i].width,
                                   LowerLine(chunk_gs, chunk_split[i].text,
                                             WidthInTextSpace(chunk_line, i - 1)))

\* The part of C38 on the constructor.
ConstructorRectanglesNormalised ==
    chunk_event # NoEvent =>
        RectanglesNormalised(chunk_event, 0,
                             WidthInTextSpace(chunk_line, Len(chunk_line)),
                             LowerLine(chunk_gs, chunk_event.text, 0))

=============================================================================
